---- MODULE Spec2Model ----
(***************************************************************************)
(* Model of the netonline package: the Edge Detector / Debouncer (Watch,   *)
(* watch.go), the Wake-Gap Watcher (StartWakeGapWatcher, sleep_wake.go)    *)
(* and the Linux Online Evaluator (recomputeOnline, bsd_darwin.go lines    *)
(* 170-282).                                                               *)
(*                                                                         *)
(* Time is discrete and relative.  One unit is 250 ms, so the 750 ms        *)
(* debounce period is Debounce = 3 units; the model keeps the time left on *)
(* the timer and the time elapsed since the events the claims speak of,    *)
(* each counted up to Debounce + 1, and no absolute clock (so an Event     *)
(* carries no ChangedAt).  A goroutine that is runnable (the event loop    *)
(* with a ready select case, a debounce callback past its evaluate() call) *)
(* runs before the next unit elapses; what takes time is waiting: for a    *)
(* channel, for the timer, for the consumer, and inside recomputeOnline(), *)
(* whose duration the code does not bound.                                 *)
(***************************************************************************)
EXTENDS Integers, Sequences, FiniteSets, TLC

\* ------------------------------------------------------------------ bounds
MaxEvents == 2      \* OSEvents the OS Event Source produces

\* ------------------------------------------------------- program constants
Debounce == 3       \* watch.go:60, 750 ms in units of 250 ms
OutCap == 1         \* watch.go:17, make(chan Event, 1)
ErrcCap == 1        \* watch.go:18, make(chan error, 1)
EventsCap == 8      \* bsd_darwin.go:122, make(chan osEvent, 8)
ErrsCap == 1        \* bsd_darwin.go:123, make(chan error, 1)

VARIABLES
    ctxDone,        \* ctx.Done() is closed
    events,         \* the OS Event Source's event channel (buffer)
    errs,           \* the OS Event Source's error channel (buffer)
    srcEvents,      \* OSEvents produced so far
    out,            \* Watch's event channel (buffer)
    outSendq,       \* senders parked on out, in arrival order (their events)
    outClosed,
    errc,           \* Watch's error channel (buffer)
    errcSendq,      \* senders parked on errc, in arrival order
    errcClosed,
    last,           \* watch.go:25
    lastReason,     \* watch.go:31
    debounceTimer,  \* watch.go:32
    loopPc,         \* where the Watch goroutine is
    evaluating,     \* debounce callbacks inside recomputeOnline()
    trigs,          \* the callbacks past it, in the order it returned
    panicked,       \* a goroutine sent on a closed channel: the process died
    \* history
    initOnline,     \* online value of the start-up recomputeOnline() call
    startup,        \* what Watch did before it returned (watch.go:21-26)
    recording,      \* fireReasons is kept (the specification of the claims
                    \* about causes keeps it, the others leave it empty)
    fireReasons,    \* lastReason when each callback inside recomputeOnline()
                    \* fired, in the order they fired
    received,       \* the events the consumer has received from out, in order
    errDrained,     \* the consumer has received from errc at least once
    evalOnline,     \* the online values recomputeOnline() has returned
    evalDone,       \* a callback's recomputeOnline() call has returned
    sinceRecv,      \* time since the loop last received an OSEvent (-1: never)
    burst,          \* OSEvents received since the timer was last found unarmed
    firesSinceRecv, \* callbacks fired since that receive
    fireDelay,      \* sinceRecv when the last callback fired (-1: never)
    quiet,          \* length of the current interval without OSEvent receive
                    \* since the last emitted event; stays at Debounce once
                    \* it reaches it, until the next event is emitted
    \* the kernel, in the specification that follows its state
    kernelOnline,   \* "free", or "online" / "offline": what
                    \* recomputeOnline() returns now
    staleQueued,    \* OSEvents of before the last change still in events
    sampled         \* for each recomputeOnline() call of a callback that
                    \* is running: the states the kernel has had since

\* StartWakeGapWatcher (sleep_wake.go)
VARIABLES
    wakeCtxDone,    \* the watcher's ctx.Done() is closed
    sample,         \* sleep_wake.go:11-12, after the default is applied
    gapThreshold,   \* sleep_wake.go:11-13, after the default is applied
    tickIn,         \* time until the ticker t fires next
    tickC,          \* the ticker's channel t.C (one slot)
    sinceLast,      \* the monotonic clock's reading minus `last`
    wakeOut,        \* signals buffered in the watcher's out channel
    wakeClosed,     \* out is closed
    wakePc,         \* where the watcher's goroutine is
    \* history
    sampleArg,      \* the sample argument as passed
    gapArg,         \* the gapThreshold argument as passed
    tickD,          \* d of the last tick handled (-1: none yet)
    tickEmit,       \* that tick ran the send of line 25
    tickFull,       \* out was full when that tick was handled
    tickSent,       \* that tick put a signal into out
    suspends,       \* suspends so far (2: two or more)
    jumped,         \* the machine was suspended since the last tick handled
    tickJump,       \* it was suspended between the last tick handled and
                    \* the tick before it
    jumpD,          \* d of the last tick handled after a suspend (-1: none)
    sentCount       \* signals put into out so far (2: two or more)

\* recomputeOnline (bsd_darwin.go:170-181)
VARIABLES
    kernel,         \* what the kernel shows: the files and interfaces read
    evalPc,         \* "call" before recomputeOnline() runs, "returned" after
    result          \* what it returned

\* startOSEventStream, Linux and BSD/macOS (bsd_darwin.go:16-36, :121-150).
\* Its channels are events and errs above, its ctx is ctxDone.
VARIABLES
    platform,       \* "linux" or "bsd"
    intBits,        \* the width of the build's int: 32 or 64
    srcPc,          \* where the source's goroutine is
    fdOpen,         \* the socket is open
    dgram,          \* the datagram the last read returned
    pendingMsgs,    \* reasons of its messages still to be sent on events
    eventsClosed,   \* the source's out is closed
    errsClosed,     \* the source's errc is closed
    reads,          \* reads that have returned so far
    \* history
    srcFatal,       \* the fatal error met ("none": none)
    readLog,        \* how the reads ended, in order
    errLog,         \* the errors put on errs, in order
    closeLog        \* what the goroutine released and closed, in order

\* startOSEventStream, Windows (part_000:84-143 and the one-subscription
\* file, part_000:409-425).  It shares platform, srcPc, srcFatal, errLog,
\* closeLog and the channels with the source above.
VARIABLES
    stopped,        \* the stop flag (part_000:88)
    subs,           \* the subscriptions registered and not yet cancelled
    calls,          \* the callbacks the OS is running
    callsMade,      \* callbacks the OS has started so far
    \* history
    lateEnqueue,    \* an OSEvent was enqueued with the stop flag set
    sentOnClosed    \* a callback sent on the closed event channel

\* the demo's main (cmd/netonline-demo/main.go:19-65).  Its streams are out,
\* errc and wakeOut above, its ctx is ctxDone and wakeCtxDone at once.
VARIABLES
    validate,       \* the -validate flag
    mainPc,         \* where main is: in its select, or in connectivityCheck
    closedRecvs     \* receives of its select that found the stream closed
                    \* and empty, counted up to MaxSpins

chanVars == <<events, errs, srcEvents>>
demoVars == <<validate, mainPc, closedRecvs>>
outVars == <<out, outSendq, outClosed>>
errcVars == <<errc, errcSendq, errcClosed>>
detVars == <<last, lastReason, debounceTimer, loopPc, evaluating, trigs,
            panicked>>
histVars == <<initOnline, startup, recording, fireReasons, received, errDrained,
              evalOnline, evalDone,
              sinceRecv, burst, firesSinceRecv, fireDelay, quiet>>
\* the kernel, where a specification follows it
worldVars == <<kernelOnline, staleQueued, sampled>>
watchVars == <<ctxDone, chanVars, outVars, errcVars, detVars, histVars,
               worldVars>>
wakeVars == <<wakeCtxDone, sample, gapThreshold, tickIn, tickC, sinceLast,
              wakeOut, wakeClosed, wakePc, sampleArg, gapArg, tickD, tickEmit,
              tickFull, tickSent, suspends, jumped, tickJump, jumpD,
              sentCount>>
evalVars == <<kernel, evalPc, result>>
srcVars == <<platform, intBits, srcPc, fdOpen, dgram, pendingMsgs, eventsClosed,
             errsClosed, reads, srcFatal, readLog, errLog, closeLog>>
\* Watch's variables other than the source's channels and the ctx
watchRest == <<srcEvents, outVars, errcVars, detVars, histVars, worldVars>>
winVars == <<stopped, subs, calls, callsMade, lateEnqueue, sentOnClosed>>
\* what the actions outside the OS Event Source leave alone
sourceVars == <<srcVars, winVars>>
vars == <<watchVars, wakeVars, evalVars, demoVars, srcVars, winVars>>

Max(a, b) == IF a >= b THEN a ELSE b
Min(a, b) == IF a <= b THEN a ELSE b
\* an elapsed time, counted up to Debounce + 1
Later(d) == Min(d + 1, Debounce + 1)

\* ------------------------------------------------------ the evaluator seen
\* from Watch: recomputeOnline() returns one of these (online, why, err),
\* whatever the kernel shows at the time of the call.  The Linux evaluator
\* itself is modelled further down.
EvalResults ==
    { [online |-> TRUE,  why |-> "default via eth0", err |-> FALSE],
      [online |-> FALSE, why |-> "default iface down", err |-> FALSE],
      [online |-> FALSE, why |-> "default route check failed", err |-> TRUE] }

Reasons == {"link change", "route change"}

\* ------------------------------------------------------------------ Watch
NilTimer == [armed |-> FALSE, left |-> 0]

\* A start-up event whose cause lacks the prefix.
InitialCauseBare(why) == <<why>>

\* watch.go:26: the initial event's cause, "initial: " + why
InitialCause(why) == <<"initial: ", why>>

\* watch.go:41-44: cause of a change event
ChangeCause(reason, why) ==
    IF reason # "" THEN <<reason, "; ", why>> ELSE <<why>>

\* A detector that reports every evaluation as a change.
TransitionAlways(online, l) == TRUE

\* watch.go:39: online != last
Transition(online, l) == online # l

\* A leading-edge debounce: an armed timer is left to run.
ResetTimerLeading(timer) ==
    IF timer.armed THEN timer ELSE [armed |-> TRUE, left |-> Debounce]

\* watch.go:57-60: debounceTimer.Stop(); time.AfterFunc(750ms, trigger)
ResetTimer(timer) == [armed |-> TRUE, left |-> Debounce]

\* A start-up that emits the initial event before it publishes the error.
StartSendsEventFirst(r) ==
    IF r.err THEN <<"out", "errc">> ELSE <<"out">>

\* watch.go:22-26: the channels Watch sends on before it returns, in order
StartSends(r) ==
    IF r.err THEN <<"errc", "out">> ELSE <<"out">>

\* watch.go:23 and :26: a send of Watch itself finds no room.  Nothing
\* receives yet, so it would block for ever.
StartBlocks(sends) ==
    \/ Cardinality({i \in 1..Len(sends) : sends[i] = "errc"}) > ErrcCap
    \/ Cardinality({i \in 1..Len(sends) : sends[i] = "out"}) > OutCap

\* watch.go:16-26: Watch up to the start of its goroutine; r is the result
\* of the start-up recomputeOnline() call
InitWatch(r) ==
    /\ ctxDone = FALSE
    /\ events = <<>> /\ errs = <<>>
    /\ srcEvents = 0
    /\ errc = IF r.err THEN <<"evaluate">> ELSE <<>>
    /\ errcSendq = <<>> /\ errcClosed = FALSE
    /\ last = r.online
    /\ out = << [online |-> r.online, cause |-> InitialCause(r.why),
                 inOrder |-> TRUE, quietOK |-> TRUE,
                 why |-> r.why, fired |-> ""] >>
    /\ outSendq = <<>> /\ outClosed = FALSE
    /\ lastReason = ""
    /\ debounceTimer = NilTimer
    /\ loopPc = "select"
    /\ evaluating = 0
    /\ trigs = <<>>
    /\ panicked = FALSE
    /\ initOnline = r.online
    /\ startup = [err |-> r.err, sends |-> StartSends(r),
                  blocked |-> StartBlocks(StartSends(r))]
    /\ fireReasons = <<>>
    /\ received = <<>>
    /\ errDrained = FALSE
    /\ evalOnline = {r.online}
    /\ evalDone = FALSE
    /\ sinceRecv = -1 /\ burst = 0 /\ firesSinceRecv = 0 /\ fireDelay = -1
    /\ quiet = 0

\* The kernel's state is not followed: a recomputeOnline() call may return
\* any result.
WorldFree == kernelOnline = "free" /\ staleQueued = 0 /\ sampled = <<>>

\* The results of a recomputeOnline() call that found the kernel in one of
\* the states ws while it ran.
ResultsOf(ws) ==
    {r \in EvalResults :
        ~r.err /\ (IF r.online THEN "online" ELSE "offline") \in ws}

\* Watch has not been called.
WatchIdle ==
    /\ ctxDone = FALSE
    /\ events = <<>> /\ errs = <<>> /\ srcEvents = 0
    /\ out = <<>> /\ outSendq = <<>> /\ outClosed = FALSE
    /\ errc = <<>> /\ errcSendq = <<>> /\ errcClosed = FALSE
    /\ last = FALSE /\ lastReason = "" /\ debounceTimer = NilTimer
    /\ loopPc = "idle" /\ evaluating = 0 /\ trigs = <<>>
    /\ panicked = FALSE
    /\ initOnline = FALSE /\ startup = <<>>
    /\ recording = FALSE /\ fireReasons = <<>>
    /\ received = <<>> /\ errDrained = FALSE
    /\ evalOnline = {} /\ evalDone = FALSE
    /\ sinceRecv = -1 /\ burst = 0 /\ firesSinceRecv = 0 /\ fireDelay = -1
    /\ quiet = 0
    /\ WorldFree

\* StartWakeGapWatcher has not been called.
WakeIdle ==
    /\ wakeCtxDone = FALSE
    /\ sample = 0 /\ gapThreshold = 0 /\ sampleArg = 0 /\ gapArg = 0
    /\ tickIn = 0 /\ tickC = <<>> /\ sinceLast = 0
    /\ wakeOut = 0 /\ wakeClosed = FALSE /\ wakePc = "idle"
    /\ tickD = -1 /\ tickEmit = FALSE /\ tickFull = FALSE
    /\ tickSent = FALSE
    /\ suspends = 0 /\ jumped = FALSE /\ tickJump = FALSE /\ jumpD = -1
    /\ sentCount = 0

\* No recomputeOnline() call is looked at on its own.
EvalIdle == kernel = <<>> /\ evalPc = "idle" /\ result = <<>>

\* The demo's main does not run: the streams have another consumer.
DemoIdle == validate = FALSE /\ mainPc = "idle" /\ closedRecvs = 0

\* No Windows subscription exists.
WinIdle ==
    /\ stopped = FALSE /\ subs = {} /\ calls = <<>> /\ callsMade = 0
    /\ lateEnqueue = FALSE /\ sentOnClosed = FALSE

\* The OS Event Source is looked at only through its channels.
SrcIdle ==
    /\ platform = "" /\ intBits = 0 /\ srcPc = "idle" /\ fdOpen = FALSE
    /\ dgram = <<>> /\ pendingMsgs = <<>>
    /\ eventsClosed = FALSE /\ errsClosed = FALSE /\ reads = 0
    /\ srcFatal = "none" /\ readLog = <<>>
    /\ errLog = <<>> /\ closeLog = <<>>
    /\ WinIdle

Init ==
    /\ \E r \in EvalResults : InitWatch(r)
    /\ recording = FALSE /\ WorldFree
    /\ WakeIdle /\ EvalIdle /\ DemoIdle /\ SrcIdle

\* --------------------------------------------------------- the environment
\* The event loop has a select case ready, or is running its deferred closes.
LoopReady ==
    \/ /\ loopPc = "select"
       /\ (ctxDone \/ events # <<>> \/ errs # <<>>
             \/ eventsClosed \/ errsClosed)
    \/ loopPc \in {"closeErrc", "closeOut"}

\* A callback is past recomputeOnline() and has statements to run.
TrigRunnable == trigs # <<>>

TimerDue == debounceTimer.armed /\ debounceTimer.left = 0

\* 250 ms elapse: nothing is runnable and no timer is due.
Tick ==
    /\ ~panicked
    /\ ~TimerDue /\ ~LoopReady /\ ~TrigRunnable
    /\ debounceTimer' = IF debounceTimer.armed
                        THEN [debounceTimer EXCEPT !.left = @ - 1]
                        ELSE debounceTimer
    /\ sinceRecv' = IF sinceRecv = -1 THEN -1 ELSE Later(sinceRecv)
    /\ quiet' = Min(quiet + 1, Debounce)
    /\ UNCHANGED <<ctxDone, chanVars, outVars, errcVars, last, lastReason,
                   loopPc, evaluating, trigs, panicked, initOnline, startup, recording,
                   fireReasons, received,
                   errDrained, evalOnline, evalDone, burst, firesSinceRecv,
                   fireDelay>>
    /\ UNCHANGED <<wakeVars, evalVars, demoVars, sourceVars, worldVars>>

\* The caller cancels ctx.
Cancel ==
    /\ ~panicked
    /\ ~ctxDone
    /\ ctxDone' = TRUE
    /\ UNCHANGED <<chanVars, outVars, errcVars, detVars, histVars>>
    /\ UNCHANGED <<wakeVars, evalVars, demoVars, sourceVars, worldVars>>

\* The OS Event Source, as far as Watch sees it while the source runs.
\* bsd_darwin.go:142-144 (and :30-32): it sends an OSEvent.
SrcEvent ==
    /\ ~panicked
    /\ srcPc \in {"idle", "read"}
    /\ srcEvents < MaxEvents
    /\ Len(events) < EventsCap
    /\ \E r \in Reasons : events' = Append(events, r)
    /\ srcEvents' = srcEvents + 1
    /\ UNCHANGED <<ctxDone, errs, outVars, errcVars, detVars, histVars>>
    /\ UNCHANGED <<wakeVars, evalVars, demoVars, sourceVars, worldVars>>

\* bsd_darwin.go:139: a datagram does not parse; errc <- err; continue.
SrcError ==
    /\ ~panicked
    /\ srcPc \in {"idle", "read"}
    /\ Len(errs) < ErrsCap
    /\ errs' = Append(errs, "source")
    /\ UNCHANGED <<ctxDone, events, srcEvents, outVars, errcVars, detVars,
                   histVars>>
    /\ UNCHANGED <<wakeVars, evalVars, demoVars, sourceVars, worldVars>>

\* The consumer receives from the event stream.  A sender parked on the full
\* channel is served in arrival order: its event takes the freed slot.
RecvOut ==
    /\ ~panicked
    /\ out # <<>>
    /\ received' = Append(received, Head(out))
    /\ IF outSendq # <<>>
       THEN /\ out' = Append(Tail(out), Head(outSendq))
            /\ outSendq' = Tail(outSendq)
       ELSE /\ out' = Tail(out)
            /\ outSendq' = outSendq
    /\ UNCHANGED <<ctxDone, chanVars, outClosed, errcVars, detVars,
                   initOnline, startup, recording,
                   fireReasons, errDrained, evalOnline, evalDone, sinceRecv,
                   burst, firesSinceRecv, fireDelay, quiet>>
    /\ UNCHANGED <<wakeVars, evalVars, demoVars, sourceVars, worldVars>>

\* The consumer receives from the error stream.  The first parked sender, a
\* callback (watch.go:36) or the event loop (watch.go:63), completes its send.
RecvErrc ==
    /\ ~panicked
    /\ errc # <<>>
    /\ errDrained' = TRUE
    /\ IF errcSendq # <<>>
       THEN /\ errc' = Append(Tail(errc),
                   IF Head(errcSendq) = "loop" THEN "source" ELSE "evaluate")
            /\ errcSendq' = Tail(errcSendq)
            /\ loopPc' = IF Head(errcSendq) = "loop" THEN "select" ELSE loopPc
       ELSE /\ errc' = Tail(errc)
            /\ errcSendq' = errcSendq
            /\ loopPc' = loopPc
    /\ UNCHANGED <<ctxDone, chanVars, outVars, errcClosed,
                   last, lastReason, debounceTimer, evaluating, trigs, panicked,
                   initOnline, startup, recording,
                   fireReasons, received, evalOnline, evalDone, sinceRecv,
                   burst, firesSinceRecv, fireDelay, quiet>>
    /\ UNCHANGED <<wakeVars, evalVars, demoVars, sourceVars, worldVars>>

\* ------------------------------------------------- Watch: the goroutine
\* watch.go:55-60: case e := <-events
LoopEvent ==
    /\ ~panicked
    /\ loopPc = "select"
    /\ events # <<>>
    /\ lastReason' = Head(events)
    /\ events' = Tail(events)
    /\ debounceTimer' = ResetTimer(debounceTimer)
    /\ sinceRecv' = 0
    /\ burst' = IF debounceTimer.armed THEN burst + 1 ELSE 1
    /\ firesSinceRecv' = 0
    /\ quiet' = IF quiet >= Debounce THEN quiet ELSE 0
    /\ UNCHANGED <<ctxDone, errs, srcEvents, outVars, errcVars, last, loopPc,
                   evaluating, trigs, panicked, initOnline, startup, recording,
                   fireReasons, received,
                   errDrained, evalOnline, evalDone, fireDelay>>
    /\ UNCHANGED <<wakeVars, evalVars, demoVars, sourceVars, kernelOnline, sampled>>
    /\ staleQueued' = IF kernelOnline = "free" THEN staleQueued
                     ELSE Max(staleQueued - 1, -1)

\* watch.go:61-64: case err := <-errs; errc <- err.  With errc full the loop
\* parks on the send.
LoopErr ==
    /\ ~panicked
    /\ loopPc = "select"
    /\ errs # <<>>
    /\ errs' = Tail(errs)
    /\ IF Len(errc) < ErrcCap
       THEN /\ errc' = Append(errc, Head(errs))
            /\ UNCHANGED <<errcSendq, loopPc>>
       ELSE /\ errcSendq' = Append(errcSendq, "loop")
            /\ loopPc' = "errsend"
            /\ errc' = errc
    /\ UNCHANGED <<ctxDone, events, srcEvents, outVars, errcClosed, last,
                   lastReason, debounceTimer, evaluating, trigs, panicked,
                   histVars>>
    /\ UNCHANGED <<wakeVars, evalVars, demoVars, sourceVars, worldVars>>

\* watch.go:50-54: case <-ctx.Done(); debounceTimer.Stop(); return
LoopCancel ==
    /\ ~panicked
    /\ loopPc = "select"
    /\ ctxDone
    /\ debounceTimer' = [debounceTimer EXCEPT !.armed = FALSE]
    /\ loopPc' = "closeErrc"
    /\ UNCHANGED <<ctxDone, chanVars, outVars, errcVars, last,
                   lastReason, evaluating, trigs, panicked, histVars>>
    /\ UNCHANGED <<wakeVars, evalVars, demoVars, sourceVars, worldVars>>

\* watch.go:30: defer close(errc), the first deferred call to run.  A sender
\* parked on errc panics.
LoopCloseErrc ==
    /\ ~panicked
    /\ loopPc = "closeErrc"
    /\ errcClosed' = TRUE
    /\ panicked' = (errcSendq # <<>>)
    /\ loopPc' = "closeOut"
    /\ UNCHANGED <<ctxDone, chanVars, outVars, errc, errcSendq, last,
                   lastReason, debounceTimer, evaluating, trigs, histVars>>
    /\ UNCHANGED <<wakeVars, evalVars, demoVars, sourceVars, worldVars>>

\* watch.go:29: defer close(out).  A sender parked on out panics.
LoopCloseOut ==
    /\ ~panicked
    /\ loopPc = "closeOut"
    /\ outClosed' = TRUE
    /\ panicked' = (outSendq # <<>>)
    /\ loopPc' = "done"
    /\ UNCHANGED <<ctxDone, chanVars, out, outSendq, errcVars, last,
                   lastReason, debounceTimer, evaluating, trigs, histVars>>
    /\ UNCHANGED <<wakeVars, evalVars, demoVars, sourceVars, worldVars>>

\* watch.go:55-60 once the source has closed its event channel and the
\* buffer is empty: the receive returns at once with the zero osEvent, whose
\* reason is "".  The statement has no `ok` test.
LoopEventClosed ==
    /\ ~panicked
    /\ loopPc = "select"
    /\ events = <<>> /\ eventsClosed
    /\ lastReason' = ""
    /\ debounceTimer' = ResetTimer(debounceTimer)
    /\ UNCHANGED <<ctxDone, chanVars, outVars, errcVars, last, loopPc,
                   evaluating, trigs, panicked, histVars>>
    /\ UNCHANGED <<wakeVars, evalVars, demoVars, sourceVars, worldVars>>

\* watch.go:61-64 once the source has closed its error channel and the
\* buffer is empty: the receive returns nil, which line 62 drops.
LoopErrClosed ==
    /\ ~panicked
    /\ loopPc = "select"
    /\ errs = <<>> /\ errsClosed
    /\ UNCHANGED <<watchVars, wakeVars, evalVars, demoVars, sourceVars>>

\* ------------------------------------------ Watch: the debounce callback
\* watch.go:60 and :34: the timer fires; the runtime runs trigger in its own
\* goroutine, which calls recomputeOnline().
TimerFire ==
    /\ ~panicked
    /\ TimerDue
    /\ debounceTimer' = [debounceTimer EXCEPT !.armed = FALSE]
    /\ evaluating' = evaluating + 1
    /\ fireReasons' = IF recording THEN Append(fireReasons, lastReason)
                      ELSE fireReasons
    /\ firesSinceRecv' = firesSinceRecv + 1
    /\ fireDelay' = sinceRecv
    /\ UNCHANGED <<ctxDone, chanVars, outVars, errcVars, last, lastReason,
                   loopPc, trigs, panicked, initOnline, startup, recording, received,
                   errDrained,
                   evalOnline, evalDone, sinceRecv, burst, quiet>>
    /\ UNCHANGED <<wakeVars, evalVars, demoVars, sourceVars, kernelOnline, staleQueued>>
    /\ sampled' = IF kernelOnline = "free" THEN sampled
                 ELSE Append(sampled, {kernelOnline})

RemoveAt(s, i) == SubSeq(s, 1, i - 1) \o SubSeq(s, i + 1, Len(s))

\* A callback that goes on to the comparison whatever the error.
AfterEvalIgnoreErr(r) == "cmp"

\* watch.go:35-38: if err != nil { errc <- err; return }
AfterEval(r) == IF r.err THEN "errsend" ELSE "cmp"

\* watch.go:34-35: recomputeOnline() returns r in one of the callbacks
\* inside it.
TrigEval ==
    /\ ~panicked
    /\ evaluating > 0
    /\ evaluating' = evaluating - 1
    /\ \E c \in IF kernelOnline = "free" THEN {0} ELSE 1..Len(sampled),
          k \in IF recording THEN 1..Len(fireReasons) ELSE {0} :
       \E r \in IF c = 0 THEN EvalResults ELSE ResultsOf(sampled[c]) :
        /\ sampled' = IF c = 0 THEN sampled ELSE RemoveAt(sampled, c)
        /\ trigs' = Append(trigs, [pc |-> AfterEval(r),
                                   online |-> r.online, why |-> r.why,
                                   cause |-> <<>>, rank |-> 0,
                                   overtaken |-> FALSE,
                                   fired |-> IF recording THEN fireReasons[k]
                                             ELSE ""])
        /\ fireReasons' = IF recording THEN RemoveAt(fireReasons, k)
                          ELSE fireReasons
        /\ evalOnline' = evalOnline \cup {r.online}
    /\ evalDone' = TRUE
    /\ UNCHANGED <<ctxDone, chanVars, outVars, errcVars, last, lastReason,
                   debounceTimer, loopPc, panicked, initOnline, startup, recording,
                   received,
                   errDrained, sinceRecv, burst, firesSinceRecv, fireDelay,
                   quiet>>
    /\ UNCHANGED <<wakeVars, evalVars, demoVars, sourceVars, kernelOnline, staleQueued>>

\* watch.go:36: errc <- err; return
TrigSendErr ==
    /\ ~panicked
    /\ \E i \in 1..Len(trigs) :
        /\ trigs[i].pc = "errsend"
        /\ trigs' = RemoveAt(trigs, i)
    /\ IF errcClosed
       THEN /\ panicked' = TRUE
            /\ UNCHANGED <<errc, errcSendq>>
       ELSE /\ panicked' = panicked
            /\ IF Len(errc) < ErrcCap
               THEN errc' = Append(errc, "evaluate") /\ errcSendq' = errcSendq
               ELSE errcSendq' = Append(errcSendq, "trig") /\ errc' = errc
    /\ UNCHANGED <<ctxDone, chanVars, outVars, errcClosed, last, lastReason,
                   debounceTimer, loopPc, evaluating, histVars>>
    /\ UNCHANGED <<wakeVars, evalVars, demoVars, sourceVars, worldVars>>

\* The callbacks that have seen a transition and have not sent its event yet.
Pending == {j \in 1..Len(trigs) : trigs[j].pc \in {"set", "send"}}

\* History: the next place in the order in which the pending callbacks saw
\* their transitions.
NextRank ==
    IF Pending = {} THEN 1
    ELSE 1 + CHOOSE r \in {trigs[j].rank : j \in Pending} :
                 \A j \in Pending : trigs[j].rank <= r

\* watch.go:39: if online != last
TrigCompare ==
    /\ ~panicked
    /\ \E i \in 1..Len(trigs) :
        /\ trigs[i].pc = "cmp"
        /\ trigs' = IF Transition(trigs[i].online, last)
                    THEN [trigs EXCEPT ![i].pc = "set", ![i].rank = NextRank]
                    ELSE RemoveAt(trigs, i)
    /\ UNCHANGED <<ctxDone, chanVars, outVars, errcVars, last, lastReason,
                   debounceTimer, loopPc, evaluating, panicked, histVars>>
    /\ UNCHANGED <<wakeVars, evalVars, demoVars, sourceVars, worldVars>>

\* watch.go:40-44: last = online; cause from lastReason and why
TrigSetLast ==
    /\ ~panicked
    /\ \E i \in 1..Len(trigs) :
        /\ trigs[i].pc = "set"
        /\ last' = trigs[i].online
        /\ trigs' = [trigs EXCEPT ![i].pc = "send",
                                  ![i].cause = ChangeCause(lastReason, trigs[i].why)]
    /\ UNCHANGED <<ctxDone, chanVars, outVars, errcVars, lastReason,
                   debounceTimer, loopPc, evaluating, panicked, histVars>>
    /\ UNCHANGED <<wakeVars, evalVars, demoVars, sourceVars, worldVars>>

\* The pending callbacks whose recomputeOnline() returned before callback
\* i's and which saw their transition (line 39) before callback i saw its.
Overtaken(i) == {j \in Pending : j < i /\ trigs[j].rank < trigs[i].rank}

\* watch.go:45: out <- Event{Online: online, Cause: cause}
TrigSend ==
    /\ ~panicked
    /\ \E i \in 1..Len(trigs) :
        /\ trigs[i].pc = "send"
        /\ trigs' = RemoveAt([j \in 1..Len(trigs) |->
                                IF j \in Overtaken(i)
                                THEN [trigs[j] EXCEPT !.overtaken = TRUE]
                                ELSE trigs[j]], i)
        /\ LET e == [online |-> trigs[i].online, cause |-> trigs[i].cause,
                     inOrder |-> ~trigs[i].overtaken,
                     quietOK |-> quiet >= Debounce,
                     why |-> trigs[i].why, fired |-> trigs[i].fired]
           IN  IF outClosed
               THEN /\ panicked' = TRUE
                    /\ UNCHANGED <<out, outSendq>>
               ELSE /\ panicked' = panicked
                    /\ IF Len(out) < OutCap
                       THEN out' = Append(out, e) /\ outSendq' = outSendq
                       ELSE outSendq' = Append(outSendq, e) /\ out' = out
    /\ quiet' = 0
    /\ UNCHANGED <<ctxDone, chanVars, outClosed, errcVars, last, lastReason,
                   debounceTimer, loopPc, evaluating, initOnline, startup, recording,
                   fireReasons, received,
                   errDrained, evalOnline, evalDone, sinceRecv, burst,
                   firesSinceRecv, fireDelay>>
    /\ UNCHANGED <<wakeVars, evalVars, demoVars, sourceVars, worldVars>>

Next ==
    \/ Tick \/ Cancel
    \/ SrcEvent \/ SrcError
    \/ RecvOut \/ RecvErrc
    \/ LoopEvent \/ LoopErr \/ LoopCancel \/ LoopCloseErrc \/ LoopCloseOut
    \/ TimerFire \/ TrigEval \/ TrigSendErr \/ TrigCompare \/ TrigSetLast
    \/ TrigSend

Spec == Init /\ [][Next]_vars

\* The same program, with the reasons at the firings recorded.
InitCause ==
    /\ \E r \in EvalResults : InitWatch(r)
    /\ recording = TRUE /\ WorldFree
    /\ WakeIdle /\ EvalIdle /\ DemoIdle /\ SrcIdle

SpecCause == InitCause /\ [][Next]_vars

\* The same program on a kernel whose state is followed: online or not, and
\* how many OSEvents of before its last change are still in the source's
\* channel (-1: the loop has received an OSEvent of after the change).  Every
\* recomputeOnline() call returns, without error, a state the kernel has had
\* between the call and its return.
InitSettle ==
    /\ \E r \in EvalResults :
         /\ ~r.err
         /\ InitWatch(r)
         /\ kernelOnline = IF r.online THEN "online" ELSE "offline"
    /\ staleQueued = 0 /\ sampled = <<>>
    /\ recording = FALSE
    /\ WakeIdle /\ EvalIdle /\ DemoIdle /\ SrcIdle

\* The kernel's state changes.
KernelChange ==
    /\ ~panicked
    /\ kernelOnline \in {"online", "offline"}
    /\ kernelOnline' = IF kernelOnline = "online" THEN "offline" ELSE "online"
    /\ staleQueued' = Len(events)
    /\ sampled' = [i \in 1..Len(sampled) |->
                       sampled[i] \cup {"online", "offline"}]
    /\ UNCHANGED <<ctxDone, chanVars, outVars, errcVars, detVars, histVars>>
    /\ UNCHANGED <<wakeVars, evalVars, demoVars, sourceVars>>

SettleNext ==
    \/ Tick \/ Cancel
    \/ SrcEvent \/ SrcError \/ KernelChange
    \/ RecvOut \/ RecvErrc
    \/ LoopEvent \/ LoopErr \/ LoopCancel \/ LoopCloseErrc \/ LoopCloseOut
    \/ TimerFire \/ TrigEval \/ TrigCompare \/ TrigSetLast \/ TrigSend

SpecSettle == InitSettle /\ [][SettleNext]_vars

\* ------------------------------------------------------ the Wake-Gap Watcher
\* Time is in the same units of 250 ms.
MaxSleep == 10          \* longest jump of the clock over a suspend
MaxReads == 4       \* reads of the OS Event Source's socket that return
MaxCallbacks == 3   \* callbacks the OS starts on the Windows subscriptions
MaxSpins == 2       \* receives from closed streams the demo's main is
                    \* followed through

DefaultSample == 4      \* sleep_wake.go:12, time.Second
DefaultGap == 6         \* sleep_wake.go:13, 1500 * time.Millisecond
WakeOutCap == 1         \* sleep_wake.go:14, make(chan struct{}, 1)

\* the arguments a caller passes
Durations == {-1, 0, 1, 2}

\* sleep_wake.go:12: if sample <= 0 { sample = time.Second }
SampleOrDefault(s) == IF s <= 0 THEN DefaultSample ELSE s

\* sleep_wake.go:13: if gapThreshold <= 0 { gapThreshold = 1500ms }
GapOrDefault(g) == IF g <= 0 THEN DefaultGap ELSE g

\* A watcher that takes a gap of exactly sample + gapThreshold for no gap.
GapReachedStrict(d, s, g) == d > s + g

\* sleep_wake.go:24: d >= sample + gapThreshold
GapReached(d, s, g) == d >= s + g

\* A watcher that keeps last_tick when it emits a signal.
SinceLastKeptOnSignal(d, emit) == IF emit THEN d ELSE 0

\* sleep_wake.go:23: last = now, on every tick; what now - last is after it
SinceLastAfterTick(d, emit) == 0

\* sleep_wake.go:11-16: StartWakeGapWatcher up to the start of its goroutine
InitWake(s, g) ==
    /\ wakeCtxDone = FALSE
    /\ sampleArg = s /\ gapArg = g
    /\ sample = SampleOrDefault(s)
    /\ gapThreshold = GapOrDefault(g)
    /\ wakeOut = 0 /\ wakeClosed = FALSE
    /\ tickIn = SampleOrDefault(s)
    /\ tickC = <<>>
    /\ sinceLast = 0
    /\ wakePc = "select"
    /\ tickD = -1 /\ tickEmit = FALSE /\ tickFull = FALSE /\ tickSent = FALSE
    /\ suspends = 0 /\ jumped = FALSE /\ tickJump = FALSE /\ jumpD = -1
    /\ sentCount = 0

\* sleep_wake.go:15: the ticker while the clock advances by k.  When its
\* next firing time is reached or passed it puts one tick into t.C and sets
\* the firing time to the next multiple of the period that lies ahead.
Advance(k) ==
    /\ wakePc = "select" /\ ~wakeCtxDone
    /\ tickC = <<>>
    /\ sinceLast' = sinceLast + k
    /\ IF k >= tickIn
       THEN /\ tickC' = <<"tick">>
            /\ tickIn' = sample - ((k - tickIn) % sample)
       ELSE /\ tickC' = tickC
            /\ tickIn' = tickIn - k
    /\ suspends' = IF k > 1 THEN Min(suspends + 1, 2) ELSE suspends
    /\ jumped' = (jumped \/ k > 1)
    /\ UNCHANGED <<wakeCtxDone, sample, gapThreshold, wakeOut, wakeClosed,
                   wakePc, sampleArg, gapArg, tickD, tickEmit, tickFull,
                   tickSent, tickJump, jumpD, sentCount>>
    /\ UNCHANGED <<watchVars, evalVars, demoVars, sourceVars>>

\* 250 ms elapse while the machine runs.
WakeClock == Advance(1)

\* The machine is suspended and resumes: the clock jumps.
WakeSuspend == \E k \in 2..MaxSleep : Advance(k)

\* The caller cancels the watcher's ctx.
WakeCancel ==
    /\ wakePc # "idle"
    /\ ~wakeCtxDone
    /\ wakeCtxDone' = TRUE
    /\ UNCHANGED <<sample, gapThreshold, tickIn, tickC, sinceLast, wakeOut,
                   wakeClosed, wakePc, sampleArg, gapArg, tickD, tickEmit,
                   tickFull, tickSent, suspends, jumped, tickJump, jumpD,
                   sentCount>>
    /\ UNCHANGED <<watchVars, evalVars, demoVars, sourceVars>>

\* The consumer receives a signal.
WakeRecv ==
    /\ wakeOut > 0
    /\ wakeOut' = wakeOut - 1
    /\ UNCHANGED <<wakeCtxDone, sample, gapThreshold, tickIn, tickC,
                   sinceLast, wakeClosed, wakePc, sampleArg, gapArg, tickD,
                   tickEmit, tickFull, tickSent, suspends, jumped, tickJump, jumpD,
                   sentCount>>
    /\ UNCHANGED <<watchVars, evalVars, demoVars, sourceVars>>

\* sleep_wake.go:22-26: case now := <-t.C.  The tick is received at the
\* instant the ticker sent it, so now - last is sinceLast.
WakeTick ==
    /\ wakePc = "select"
    /\ tickC # <<>>
    /\ tickC' = Tail(tickC)
    /\ LET d == sinceLast
       IN  /\ tickD' = d
           /\ sinceLast' = SinceLastAfterTick(d, GapReached(d, sample, gapThreshold))
           /\ tickFull' = (wakeOut >= WakeOutCap)
           /\ IF GapReached(d, sample, gapThreshold)
              THEN /\ tickEmit' = TRUE
                   /\ IF wakeOut < WakeOutCap
                      THEN /\ wakeOut' = wakeOut + 1 /\ tickSent' = TRUE
                           /\ sentCount' = Min(sentCount + 1, 2)
                      ELSE /\ wakeOut' = wakeOut /\ tickSent' = FALSE
                           /\ sentCount' = sentCount
              ELSE /\ tickEmit' = FALSE /\ tickSent' = FALSE
                   /\ wakeOut' = wakeOut /\ sentCount' = sentCount
           /\ jumpD' = IF jumped THEN d ELSE jumpD
    /\ tickJump' = jumped
    /\ jumped' = FALSE
    /\ UNCHANGED <<wakeCtxDone, sample, gapThreshold, tickIn, wakeClosed,
                   wakePc, sampleArg, gapArg, suspends>>
    /\ UNCHANGED <<watchVars, evalVars, demoVars, sourceVars>>

\* sleep_wake.go:21: case <-ctx.Done(): return
WakeDone ==
    /\ wakePc = "select"
    /\ wakeCtxDone
    /\ wakePc' = "stopTicker"
    /\ UNCHANGED <<wakeCtxDone, sample, gapThreshold, tickIn, tickC,
                   sinceLast, wakeOut, wakeClosed, sampleArg, gapArg, tickD,
                   tickEmit, tickFull, tickSent, suspends, jumped, tickJump, jumpD,
                   sentCount>>
    /\ UNCHANGED <<watchVars, evalVars, demoVars, sourceVars>>

\* sleep_wake.go:18: defer t.Stop(), the first deferred call to run
WakeStopTicker ==
    /\ wakePc = "stopTicker"
    /\ wakePc' = "closeOut"
    /\ UNCHANGED <<wakeCtxDone, sample, gapThreshold, tickIn, tickC,
                   sinceLast, wakeOut, wakeClosed, sampleArg, gapArg, tickD,
                   tickEmit, tickFull, tickSent, suspends, jumped, tickJump, jumpD,
                   sentCount>>
    /\ UNCHANGED <<watchVars, evalVars, demoVars, sourceVars>>

\* sleep_wake.go:18: defer close(out)
WakeCloseOut ==
    /\ wakePc = "closeOut"
    /\ wakeClosed' = TRUE
    /\ wakePc' = "done"
    /\ UNCHANGED <<wakeCtxDone, sample, gapThreshold, tickIn, tickC,
                   sinceLast, wakeOut, sampleArg, gapArg, tickD, tickEmit,
                   tickFull, tickSent, suspends, jumped, tickJump, jumpD,
                   sentCount>>
    /\ UNCHANGED <<watchVars, evalVars, demoVars, sourceVars>>

WakeInit ==
    /\ \E s \in Durations, g \in Durations : InitWake(s, g)
    /\ WatchIdle /\ EvalIdle /\ DemoIdle /\ SrcIdle

WakeNext ==
    \/ WakeClock \/ WakeSuspend \/ WakeCancel \/ WakeRecv
    \/ WakeTick \/ WakeDone \/ WakeStopTicker \/ WakeCloseOut

SpecWake == WakeInit /\ [][WakeNext]_vars

\* ------------------------------------------------------- the demo's main
\* main.go:27-31: main calls Watch and StartWakeGapWatcher with the one ctx
\* of signal.NotifyContext and the default -wake-sample and -wake-gap, then
\* enters its loop.  While it runs no OSEvent arrives and the machine is
\* not suspended, so that no wake signal is sent.
InitDemo ==
    /\ \E r \in EvalResults : InitWatch(r)
    /\ recording = FALSE /\ WorldFree
    /\ InitWake(DefaultSample, DefaultGap)
    /\ validate \in BOOLEAN /\ mainPc = "select" /\ closedRecvs = 0
    /\ EvalIdle /\ SrcIdle

\* main.go:27: SIGINT or SIGTERM arrives; the ctx of Watch and of the
\* wake-gap watcher is cancelled.
Signal ==
    /\ ~ctxDone
    /\ ctxDone' = TRUE
    /\ wakeCtxDone' = TRUE
    /\ UNCHANGED <<chanVars, outVars, errcVars, detVars, histVars, worldVars>>
    /\ UNCHANGED <<sample, gapThreshold, tickIn, tickC, sinceLast, wakeOut,
                   wakeClosed, wakePc, sampleArg, gapArg, tickD, tickEmit,
                   tickFull, tickSent, suspends, jumped, tickJump, jumpD,
                   sentCount>>
    /\ UNCHANGED <<evalVars, demoVars, sourceVars>>

\* main.go:44 and :53: connectivityCheck runs for an online result when
\* -validate is set.
AfterResult(online) == IF online /\ validate THEN "check" ELSE "select"

\* main.go:43-49: case ev := <-events, with an event in the stream
MainEvent ==
    /\ ~panicked
    /\ mainPc = "select"
    /\ out # <<>>
    /\ received' = Append(received, Head(out))
    /\ IF outSendq # <<>>
       THEN /\ out' = Append(Tail(out), Head(outSendq))
            /\ outSendq' = Tail(outSendq)
       ELSE /\ out' = Tail(out)
            /\ outSendq' = outSendq
    /\ mainPc' = AfterResult(Head(out).online)
    /\ closedRecvs' = closedRecvs
    /\ UNCHANGED <<ctxDone, chanVars, outClosed, errcVars, detVars,
                   initOnline, startup, recording,
                   fireReasons, errDrained, evalOnline, evalDone, sinceRecv,
                   burst, firesSinceRecv, fireDelay, quiet>>
    /\ UNCHANGED <<validate, wakeVars, evalVars, sourceVars, worldVars>>

\* main.go:43-49 on the closed, empty stream: the receive returns the zero
\* Event at once; Online is false and line 48 prints it.
MainEventClosed ==
    /\ ~panicked
    /\ mainPc = "select"
    /\ out = <<>> /\ outClosed
    /\ closedRecvs' = Min(closedRecvs + 1, MaxSpins)
    /\ UNCHANGED <<validate, mainPc, watchVars, wakeVars, evalVars, sourceVars>>

\* main.go:50-58: case <-wakes, with a signal in the stream; Evaluate()
\* returns r and its error is dropped.
MainWake ==
    /\ ~panicked
    /\ mainPc = "select"
    /\ wakeOut > 0
    /\ wakeOut' = wakeOut - 1
    /\ \E r \in EvalResults : mainPc' = AfterResult(r.online)
    /\ closedRecvs' = closedRecvs
    /\ UNCHANGED <<wakeCtxDone, sample, gapThreshold, tickIn, tickC,
                   sinceLast, wakeClosed, wakePc, sampleArg, gapArg, tickD,
                   tickEmit, tickFull, tickSent, suspends, jumped, tickJump, jumpD,
                   sentCount>>
    /\ UNCHANGED <<validate, watchVars, evalVars, sourceVars>>

\* main.go:50-58 on the closed, empty stream: the receive returns at once
\* and the case runs as for a signal.
MainWakeClosed ==
    /\ ~panicked
    /\ mainPc = "select"
    /\ wakeOut = 0 /\ wakeClosed
    /\ \E r \in EvalResults : mainPc' = AfterResult(r.online)
    /\ closedRecvs' = Min(closedRecvs + 1, MaxSpins)
    /\ UNCHANGED <<validate, watchVars, wakeVars, evalVars, sourceVars>>

\* main.go:59-62: case err := <-errs, with an error in the stream
MainErr ==
    /\ ~panicked
    /\ mainPc = "select"
    /\ errc # <<>>
    /\ errDrained' = TRUE
    /\ IF errcSendq # <<>>
       THEN /\ errc' = Append(Tail(errc),
                   IF Head(errcSendq) = "loop" THEN "source" ELSE "evaluate")
            /\ errcSendq' = Tail(errcSendq)
            /\ loopPc' = IF Head(errcSendq) = "loop" THEN "select" ELSE loopPc
       ELSE /\ errc' = Tail(errc)
            /\ errcSendq' = errcSendq
            /\ loopPc' = loopPc
    /\ closedRecvs' = closedRecvs
    /\ UNCHANGED <<ctxDone, chanVars, outVars, errcClosed,
                   last, lastReason, debounceTimer, evaluating, trigs, panicked,
                   initOnline, startup, recording,
                   fireReasons, received, evalOnline, evalDone, sinceRecv,
                   burst, firesSinceRecv, fireDelay, quiet>>
    /\ UNCHANGED <<validate, mainPc, wakeVars, evalVars, sourceVars, worldVars>>

\* main.go:59-62 on the closed, empty stream: the receive returns nil and
\* nothing is printed.
MainErrClosed ==
    /\ ~panicked
    /\ mainPc = "select"
    /\ errc = <<>> /\ errcClosed
    /\ closedRecvs' = Min(closedRecvs + 1, MaxSpins)
    /\ UNCHANGED <<validate, mainPc, watchVars, wakeVars, evalVars, sourceVars>>

\* main.go:45 and :54: connectivityCheck returns.
MainCheckDone ==
    /\ mainPc = "check"
    /\ mainPc' = "select"
    /\ UNCHANGED <<validate, closedRecvs, watchVars, wakeVars, evalVars, sourceVars>>

DemoNext ==
    \/ Signal
    \/ LoopCancel \/ LoopCloseErrc \/ LoopCloseOut
    \/ WakeClock \/ WakeTick
    \/ WakeDone \/ WakeStopTicker \/ WakeCloseOut
    \/ MainEvent \/ MainErr
    \/ MainEventClosed \/ MainWakeClosed \/ MainErrClosed
    \/ MainCheckDone

SpecDemo == InitDemo /\ [][DemoNext]_vars

\* ------------------------------------------------ the Linux Online Evaluator
\* What recomputeOnline() reads.  A hexadecimal field of /proc/net/route is
\* the sequence of its digits' values and an IPv4 address the sequence of its
\* four octets, so that hexToIPv4 converts; the other fields are the strings
\* the kernel prints.
RTF_UP == 1             \* bsd_darwin.go:193, flags&0x1
ATF_COM == 2            \* bsd_darwin.go:240, val & 0x2

Unreadable == [readable |-> FALSE, lines |-> <<>>]
File(ls) == [readable |-> TRUE, lines |-> ls]

Hex00000000 == <<0, 0, 0, 0, 0, 0, 0, 0>>
Hex0101A8C0 == <<0, 1, 0, 1, 10, 8, 12, 0>>     \* 192.168.1.1
Hex0001A8C0 == <<0, 0, 0, 1, 10, 8, 12, 0>>     \* 192.168.1.0

Route4Line(dest, gw, flags) ==
    [iface |-> "eth0", dest |-> dest, gw |-> gw, flags |-> flags]

\* /proc/net/route after its header line
Route4Files ==
    { Unreadable,
      File(<<>>),
      File(<< Route4Line(Hex0001A8C0, Hex00000000, 1) >>),
      File(<< Route4Line(Hex0001A8C0, Hex00000000, 1),
              Route4Line(Hex00000000, Hex0101A8C0, 3) >>),
      File(<< Route4Line(Hex00000000, Hex00000000, 1) >>) }

\* /proc/net/ipv6_route: the kernel prints a prefix length as two hexadecimal
\* digits and ends the line with the device's name
Route6Files ==
    { Unreadable,
      File(<<>>),
      File(<< [dest |-> "00000000000000000000000000000000",
               pfxLenHex |-> "00", flags |-> 3, dev |-> "eth0"] >>) }

\* The interface the routes name: its index, its flags, its state files under
\* /sys/class/net and its addresses.
Addr(v4, loopback, unspecified, linkLocal) ==
    [v4 |-> v4, loopback |-> loopback, unspecified |-> unspecified,
     linkLocal |-> linkLocal]

AddrLists ==
    { <<>>,
      << Addr(TRUE, FALSE, FALSE, FALSE) >>,                \* 192.168.1.7
      << Addr(FALSE, FALSE, FALSE, TRUE) >>,                \* fe80::1
      << Addr(FALSE, FALSE, FALSE, TRUE),
         Addr(FALSE, FALSE, FALSE, FALSE) >> }              \* and 2001:db8::1

Ifaces ==
    [name : {"eth0"}, index : {2},
     flagUp : BOOLEAN, flagLoopback : {FALSE},
     operstate : {File(<<"up">>), File(<<"unknown">>), File(<<"down">>)},
     carrier : {File(<<"1">>), File(<<"0">>), Unreadable},
     addrs : AddrLists]

ArpLine(flags, mac) ==
    [ip |-> <<192, 168, 1, 1>>, flags |-> flags, mac |-> mac, dev |-> "eth0"]

\* /proc/net/arp after its header line
ArpFiles ==
    { Unreadable,
      File(<<>>),
      File(<< ArpLine(2, "aa:bb:cc:dd:ee:ff") >>),
      File(<< ArpLine(0, "00:00:00:00:00:00") >>),
      File(<< ArpLine(2, "00:00:00:00:00:00") >>) }

Nameserver(ip) == [keyword |-> "nameserver", addr |-> ip]

\* a resolv.conf
ResolvFiles ==
    { Unreadable,
      File(<< Nameserver(<<127, 0, 0, 53>>) >>),
      File(<< Nameserver(<<192, 168, 1, 1>>) >>) }

Kernels ==
    [route4 : Route4Files, route6 : Route6Files, ifi : Ifaces,
     arp : ArpFiles, resolved : ResolvFiles, etc : ResolvFiles]

Ret(online, why, err) == [online |-> online, why |-> why, err |-> err]

\* bsd_darwin.go:217-227: the four bytes of the field, last first
hexToIPv4(hexs) ==
    IF Len(hexs) # 8 THEN <<>>
    ELSE << 16 * hexs[7] + hexs[8], 16 * hexs[5] + hexs[6],
            16 * hexs[3] + hexs[4], 16 * hexs[1] + hexs[2] >>

\* bsd_darwin.go:247-251
ifIndexToName(idx, k) == IF k.ifi.index = idx THEN k.ifi.name ELSE ""

\* bsd_darwin.go:208: strconv.ParseInt(ifIdxHex, 16, 32), its error dropped:
\* 0 for a field that is no hexadecimal numeral
ParseIfIdx(field) == IF field = "2" THEN 2 ELSE 0

\* bsd_darwin.go:187-198: the first line with destination 00000000 and RTF_UP
RECURSIVE ScanRoute4(_)
ScanRoute4(lines) ==
    IF lines = <<>> THEN [hasDef |-> FALSE, ifname |-> "", gw |-> <<>>]
    ELSE LET ln == Head(lines)
         IN  IF ln.dest = Hex00000000 /\ (ln.flags \div RTF_UP) % 2 = 1
             THEN [hasDef |-> TRUE, ifname |-> ln.iface,
                   gw |-> hexToIPv4(ln.gw)]
             ELSE ScanRoute4(Tail(lines))

\* bsd_darwin.go:202-212: the first line whose second field is "000"
RECURSIVE ScanRoute6(_, _)
ScanRoute6(lines, k) ==
    IF lines = <<>> THEN [hasDef |-> FALSE, ifname |-> "", gw |-> <<>>]
    ELSE LET ln == Head(lines)
         IN  IF ln.pfxLenHex = "000"
             THEN [hasDef |-> TRUE,
                   ifname |-> ifIndexToName(ParseIfIdx(ln.dev), k),
                   gw |-> <<>>]
             ELSE ScanRoute6(Tail(lines), k)

\* bsd_darwin.go:183-215; its error is always nil
linuxDefaultRoute(k) ==
    LET r4 == ScanRoute4(k.route4.lines)
    IN  IF k.route4.readable /\ r4.hasDef THEN r4
        ELSE IF k.route6.readable THEN ScanRoute6(k.route6.lines, k)
        ELSE [hasDef |-> FALSE, ifname |-> "", gw |-> <<>>]

\* net.InterfaceByName(name) succeeds
InterfaceByName(name, k) == k.ifi.name = name

\* bsd_darwin.go:253-268; its error is always nil
linuxIfaceUp(name, k) ==
    IF name = "" THEN FALSE
    ELSE IF InterfaceByName(name, k)
            /\ (~k.ifi.flagUp \/ k.ifi.flagLoopback) THEN FALSE
    ELSE IF k.ifi.operstate.readable
            /\ k.ifi.operstate.lines[1] \notin {"up", "unknown"} THEN FALSE
    ELSE IF k.ifi.carrier.readable /\ k.ifi.carrier.lines[1] # "1" THEN FALSE
    ELSE TRUE

\* bsd_darwin.go:276-279: one address of the interface
UsableAddr(a) ==
    IF a.loopback THEN FALSE
    ELSE IF a.v4 THEN ~a.unspecified
    ELSE ~(a.linkLocal \/ a.unspecified)

\* bsd_darwin.go:270-282
ifaceHasUsableAddr(ifname, k) ==
    /\ InterfaceByName(ifname, k)
    /\ \E i \in 1..Len(k.ifi.addrs) : UsableAddr(k.ifi.addrs[i])

\* bsd_darwin.go:234-244: the first entry for gw on ifname decides
RECURSIVE ScanArp(_, _, _)
ScanArp(lines, gw, ifname) ==
    IF lines = <<>> THEN FALSE
    ELSE LET f == Head(lines)
         IN  IF f.dev # ifname \/ f.ip # gw
             THEN ScanArp(Tail(lines), gw, ifname)
             ELSE IF (f.flags \div ATF_COM) % 2 = 0 THEN FALSE
             ELSE IF f.mac = "00:00:00:00:00:00" THEN FALSE
             ELSE TRUE

\* bsd_darwin.go:229-245; gw is an IPv4 address when it has four octets
arpIsReady(gw, ifname, k) ==
    IF Len(gw) # 4 THEN TRUE
    ELSE IF ~k.arp.readable THEN TRUE
    ELSE ScanArp(k.arp.lines, gw, ifname)

\* main.go:179-187: a nameserver line with an address that is not loopback
ResolvHasNameserver(f) ==
    /\ f.readable
    /\ \E i \in 1..Len(f.lines) :
        /\ f.lines[i].keyword = "nameserver"
        /\ f.lines[i].addr[1] # 127

\* main.go:172-192
hasDNSResolver(k) ==
    ResolvHasNameserver(k.resolved) \/ ResolvHasNameserver(k.etc)

\* bsd_darwin.go:170-181
recomputeOnline(k) ==
    LET rt == linuxDefaultRoute(k)
    IN  IF ~rt.hasDef THEN Ret(FALSE, <<"no default route">>, FALSE)
        ELSE IF rt.ifname = ""
             THEN Ret(FALSE, <<"default route no iface">>, FALSE)
        ELSE IF ~linuxIfaceUp(rt.ifname, k)
             THEN Ret(FALSE, <<"default iface down">>, FALSE)
        ELSE IF ~ifaceHasUsableAddr(rt.ifname, k)
             THEN Ret(FALSE, <<"default iface has no usable IP">>, FALSE)
        ELSE IF rt.gw # <<>> /\ ~arpIsReady(rt.gw, rt.ifname, k)
             THEN Ret(FALSE, <<"gateway neighbor not ready">>, FALSE)
        ELSE IF ~hasDNSResolver(k)
             THEN Ret(FALSE, <<"no DNS resolver">>, FALSE)
        ELSE Ret(TRUE, <<"default via ", rt.ifname>>, FALSE)

\* A caller is about to call recomputeOnline() on a kernel in state k.
InitEval(k) == kernel = k /\ evalPc = "call" /\ result = <<>>

\* bsd_darwin.go:170-181: the call
Evaluate ==
    /\ evalPc = "call"
    /\ result' = recomputeOnline(kernel)
    /\ evalPc' = "returned"
    /\ UNCHANGED kernel
    /\ UNCHANGED <<watchVars, wakeVars, demoVars, sourceVars>>

EvalInit ==
    /\ \E k \in Kernels : InitEval(k)
    /\ WatchIdle /\ WakeIdle /\ DemoIdle /\ SrcIdle

EvalNext == Evaluate

SpecEval == EvalInit /\ [][EvalNext]_vars

\* ------------------------------------- the OS Event Source, Linux and BSD
\* The builds looked at: GOOS and the width of int.
Builds == {<<"linux", 64>>, <<"linux", 32>>, <<"bsd", 64>>}

\* unsafe.Sizeof(nlmsghdr{}), bsd_darwin.go:157
HdrLen == 16

\* A header as parseNlMsgs reads it: its type and its Len, a uint32, kept as
\* bit 31 (hi) and the bits below it (lo).
Hdr(lo, type) == [hi |-> FALSE, lo |-> lo, type |-> type]
HdrHuge(lo, type) == [hi |-> TRUE, lo |-> lo, type |-> type]

\* A netlink datagram: its length n in bytes and the headers parseNlMsgs
\* finds in it, in the order it comes to them.
Buf(n, hdrs) == [n |-> n, hdrs |-> hdrs]

NlBuffers ==
    { Buf(16, << Hdr(16, "RTM_NEWROUTE") >>),
      Buf(60, << Hdr(20, "RTM_DELROUTE"), Hdr(20, "RTM_NEWADDR"),
                 Hdr(20, "RTM_NEWLINK") >>),
      Buf(18, << Hdr(18, "RTM_NEWLINK") >>),
      Buf(16, << Hdr(16, "RTM_NEWNEIGH") >>),
      Buf(8,  << >>),
      Buf(16, << Hdr(8, "RTM_NEWROUTE") >>),
      Buf(16, << Hdr(32, "RTM_NEWROUTE") >>),
      Buf(36, << Hdr(16, "RTM_NEWROUTE"), Hdr(24, "RTM_NEWADDR") >>),
      Buf(16, << HdrHuge(16, "RTM_NEWROUTE") >>) }

\* One read returns one datagram: a netlink buffer on Linux; on BSD whether
\* ParseRIB accepts it, and the types of its messages.
Datagrams(p) ==
    IF p = "linux" THEN NlBuffers
    ELSE { [valid |-> TRUE,  types |-> <<"RTM_IFINFO">>],
           [valid |-> FALSE, types |-> <<>>] }

\* int(h.Len) > len(b), bsd_darwin.go:160: with a 32-bit int a Len with
\* bit 31 set converts to a negative number
LenExceeds(h, rem, bits) ==
    IF h.hi THEN bits = 64 ELSE h.lo > rem

\* int((h.Len + 3) &^ 3), bsd_darwin.go:163
Align4(len) == ((len + 3) \div 4) * 4

\* bsd_darwin.go:158-166: the loop over a buffer of which rem bytes are left
\* from offset off on.  A message is its type and the bounds of its body in
\* the datagram; b[hdrLen:h.Len] with h.Len beyond the capacity of the buffer
\* is a run-time panic.
RECURSIVE ParseFrom(_, _, _, _, _)
ParseFrom(rem, off, hdrs, bits, acc) ==
    IF rem < HdrLen THEN [msgs |-> acc, outcome |-> "ok"]
    ELSE LET h == IF hdrs = <<>> THEN Hdr(0, "") ELSE Head(hdrs)
         IN  IF (~h.hi /\ h.lo < HdrLen) \/ LenExceeds(h, rem, bits)
             THEN [msgs |-> acc, outcome |-> "err"]
             ELSE IF h.hi
             THEN [msgs |-> acc, outcome |-> "panic"]
             ELSE LET m == [type |-> h.type, len |-> h.lo,
                            from |-> off + HdrLen, to |-> off + h.lo]
                  IN  IF Align4(h.lo) > rem
                      THEN [msgs |-> Append(acc, m), outcome |-> "ok"]
                      ELSE ParseFrom(rem - Align4(h.lo), off + Align4(h.lo),
                                     Tail(hdrs), bits, Append(acc, m))

\* bsd_darwin.go:155-168
parseNlMsgs(b, bits) == ParseFrom(b.n, 0, b.hdrs, bits, <<>>)

\* The types of the messages parseNlMsgs returns.
TypesOf(msgs) == [i \in 1..Len(msgs) |-> msgs[i].type]

\* How a read ends: with a datagram, interrupted, or with another error.
ReadErrors == {"EINTR", "EBADF"}

\* The reason the Linux loop sends for a message type ("": none).
ReasonOf(t) ==
    CASE t \in {"RTM_NEWROUTE", "RTM_DELROUTE"} -> "route change"
      [] t \in {"RTM_NEWADDR", "RTM_DELADDR"}   -> "addr change"
      [] t \in {"RTM_NEWLINK", "RTM_DELLINK"}   -> "link change"
      [] OTHER                                  -> ""

RECURSIVE ReasonsOf(_)
ReasonsOf(types) ==
    IF types = <<>> THEN <<>>
    ELSE LET r == ReasonOf(Head(types))
         IN  (IF r = "" THEN <<>> ELSE <<r>>) \o ReasonsOf(Tail(types))

\* The events the loop sends for a datagram.  Linux sends one per message
\* of a type it knows; BSD sends "net change" whether ParseRIB accepts the
\* datagram or not.
EventsOf(p, d, bits) ==
    IF p = "linux" THEN ReasonsOf(TypesOf(parseNlMsgs(d, bits).msgs))
    ELSE <<"net change">>

\* A failed read the loop retries instead of returning.
IsRetriedNever(p, e) == FALSE

IsRetried(p, e) == p = "linux" /\ e = "EINTR"

\* The step after opening the socket.
AfterSocket(p) == IF p = "linux" THEN "bind" ELSE "loop"

InitSrc(p, w) ==
    /\ platform = p /\ intBits = w /\ srcPc = "socket" /\ fdOpen = FALSE
    /\ dgram = <<>> /\ pendingMsgs = <<>>
    /\ eventsClosed = FALSE /\ errsClosed = FALSE /\ reads = 0
    /\ srcFatal = "none" /\ readLog = <<>>
    /\ errLog = <<>> /\ closeLog = <<>>
    /\ WinIdle

\* A step of the goroutine that touches neither channel.
SrcStep(pc) ==
    /\ srcPc' = pc
    /\ UNCHANGED <<ctxDone, events, errs, watchRest, wakeVars, evalVars, demoVars, winVars>>

\* unix.Socket
SrcSocket ==
    /\ srcPc = "socket"
    /\ \E ok \in BOOLEAN :
         IF ok
         THEN /\ fdOpen' = TRUE
              /\ SrcStep(AfterSocket(platform))
              /\ UNCHANGED srcFatal
         ELSE /\ srcFatal' = "socket"
              /\ SrcStep("fatal")
              /\ UNCHANGED fdOpen
    /\ UNCHANGED <<platform, intBits, dgram, pendingMsgs, eventsClosed, errsClosed,
                   reads, readLog, errLog, closeLog>>

\* unix.Bind (Linux)
SrcBind ==
    /\ srcPc = "bind"
    /\ \E ok \in BOOLEAN :
         IF ok
         THEN SrcStep("loop") /\ UNCHANGED srcFatal
         ELSE SrcStep("fatal") /\ srcFatal' = "bind"
    /\ UNCHANGED <<platform, intBits, fdOpen, dgram, pendingMsgs, eventsClosed,
                   errsClosed, reads, readLog, errLog, closeLog>>

\* select { case <-ctx.Done(): return; default: }
SrcLoop ==
    /\ srcPc = "loop"
    /\ SrcStep(IF ctxDone THEN "closeFd" ELSE "read")
    /\ UNCHANGED <<platform, intBits, fdOpen, dgram, pendingMsgs, eventsClosed,
                   errsClosed, reads, srcFatal, readLog, errLog, closeLog>>

\* unix.Recvfrom / unix.Read returns with a datagram.  The call has no
\* timeout: it returns when the kernel has something for the socket.
SrcReadData ==
    /\ srcPc = "read"
    /\ reads < MaxReads
    /\ \E d \in Datagrams(platform) :
         /\ dgram' = d
         /\ IF platform = "linux"
            THEN SrcStep("parse") /\ UNCHANGED pendingMsgs
            ELSE /\ SrcStep("send")
                 /\ pendingMsgs' = EventsOf(platform, d, intBits)
    /\ reads' = reads + 1
    /\ readLog' = Append(readLog, "data")
    /\ UNCHANGED <<platform, intBits, fdOpen, eventsClosed, errsClosed, srcFatal,
                   errLog, closeLog>>

\* unix.Recvfrom / unix.Read returns an error.
SrcReadError ==
    /\ srcPc = "read"
    /\ reads < MaxReads
    /\ \E e \in ReadErrors :
         /\ readLog' = Append(readLog, e)
         /\ IF IsRetried(platform, e)
            THEN SrcStep("loop") /\ UNCHANGED srcFatal
            ELSE SrcStep("fatal") /\ srcFatal' = "read"
    /\ reads' = reads + 1
    /\ UNCHANGED <<platform, intBits, fdOpen, dgram, pendingMsgs, eventsClosed,
                   errsClosed, errLog, closeLog>>

\* parseNlMsgs (Linux): an error goes to errc and the loop continues; a
\* panic ends the process.
SrcParse ==
    /\ srcPc = "parse"
    /\ LET r == parseNlMsgs(dgram, intBits)
       IN  CASE r.outcome = "ok" ->
                  /\ pendingMsgs' = EventsOf(platform, dgram, intBits)
                  /\ SrcStep(IF EventsOf(platform, dgram, intBits) = <<>>
                             THEN "loop" ELSE "send")
             [] r.outcome = "err" ->
                  /\ SrcStep("parseErr")
                  /\ UNCHANGED pendingMsgs
             [] r.outcome = "panic" ->
                  /\ SrcStep("panic")
                  /\ UNCHANGED pendingMsgs
    /\ UNCHANGED <<platform, intBits, fdOpen, dgram, eventsClosed,
                   errsClosed, reads, srcFatal, readLog, errLog, closeLog>>

\* errc <- err; continue.  The send parks the goroutine while errc is full.
SrcSendParseErr ==
    /\ srcPc = "parseErr"
    /\ Len(errs) < ErrsCap
    /\ errs' = Append(errs, "parse")
    /\ errLog' = Append(errLog, "parse")
    /\ srcPc' = "loop"
    /\ UNCHANGED <<ctxDone, events, watchRest, wakeVars, evalVars, demoVars, winVars>>
    /\ UNCHANGED <<platform, intBits, fdOpen, dgram, pendingMsgs, eventsClosed,
                   errsClosed, reads, srcFatal, readLog, closeLog>>

\* out <- osEvent{reason: ...}.  The send parks the goroutine while out is
\* full.
SrcSendEvent ==
    /\ srcPc = "send"
    /\ Len(events) < EventsCap
    /\ events' = Append(events, Head(pendingMsgs))
    /\ pendingMsgs' = Tail(pendingMsgs)
    /\ srcPc' = IF Tail(pendingMsgs) = <<>> THEN "loop" ELSE "send"
    /\ UNCHANGED <<ctxDone, errs, watchRest, wakeVars, evalVars, demoVars, winVars>>
    /\ UNCHANGED <<platform, intBits, fdOpen, dgram, eventsClosed, errsClosed, reads,
                   srcFatal, readLog, errLog, closeLog>>

\* errc <- fmt.Errorf(...); return
SrcSendFatal ==
    /\ srcPc = "fatal"
    /\ Len(errs) < ErrsCap
    /\ errs' = Append(errs, srcFatal)
    /\ errLog' = Append(errLog, srcFatal)
    /\ srcPc' = IF fdOpen THEN "closeFd" ELSE "closeErrc"
    /\ UNCHANGED <<ctxDone, events, watchRest, wakeVars, evalVars, demoVars, winVars>>
    /\ UNCHANGED <<platform, intBits, fdOpen, dgram, pendingMsgs, eventsClosed,
                   errsClosed, reads, srcFatal, readLog, closeLog>>

\* The deferred calls, last first: unix.Close(fd), close(errc), close(out).
SrcCloseFd ==
    /\ srcPc = "closeFd"
    /\ fdOpen' = FALSE
    /\ closeLog' = Append(closeLog, "fd")
    /\ SrcStep("closeErrc")
    /\ UNCHANGED <<platform, intBits, dgram, pendingMsgs, eventsClosed, errsClosed,
                   reads, srcFatal, readLog, errLog>>

SrcCloseErrc ==
    /\ srcPc = "closeErrc"
    /\ errsClosed' = TRUE
    /\ closeLog' = Append(closeLog, "errc")
    /\ SrcStep("closeOut")
    /\ UNCHANGED <<platform, intBits, fdOpen, dgram, pendingMsgs, eventsClosed,
                   reads, srcFatal, readLog, errLog>>

SrcCloseOut ==
    /\ srcPc = "closeOut"
    /\ eventsClosed' = TRUE
    /\ closeLog' = Append(closeLog, "out")
    /\ SrcStep("done")
    /\ UNCHANGED <<platform, intBits, fdOpen, dgram, pendingMsgs, errsClosed,
                   reads, srcFatal, readLog, errLog>>

\* What the goroutine can do by itself.
SrcRun ==
    \/ SrcSocket \/ SrcBind \/ SrcLoop \/ SrcParse
    \/ SrcSendParseErr \/ SrcSendEvent \/ SrcSendFatal
    \/ SrcCloseFd \/ SrcCloseErrc \/ SrcCloseOut

\* The receiver of the two channels (Watch's loop) takes an event.
SrcTakeEvent ==
    /\ events # <<>>
    /\ events' = Tail(events)
    /\ UNCHANGED <<ctxDone, errs, watchRest, wakeVars, evalVars, demoVars, srcVars, winVars>>

\* The receiver takes an error.
SrcTakeErr ==
    /\ errs # <<>>
    /\ errs' = Tail(errs)
    /\ UNCHANGED <<ctxDone, events, watchRest, wakeVars, evalVars, demoVars, srcVars, winVars>>

SrcInit ==
    /\ \E b \in Builds : InitSrc(b[1], b[2])
    /\ WatchIdle /\ WakeIdle /\ EvalIdle /\ DemoIdle

SrcNext ==
    \/ SrcRun
    \/ SrcReadData \/ SrcReadError
    \/ SrcTakeEvent \/ SrcTakeErr
    \/ Cancel

SpecSrc == SrcInit /\ [][SrcNext]_vars

\* ------------------------------------------- Watch on a failing source
\* Watch on a source that can fail: the Linux goroutine from its first
\* statement, its reads that return a datagram seen through the event
\* channel (SrcEvent; every datagram parses), its failed reads and its
\* return step by step.  The caller never cancels ctx.
InitClosed ==
    /\ \E r \in EvalResults : InitWatch(r)
    /\ recording = FALSE /\ WorldFree
    /\ InitSrc("linux", 64)
    /\ WakeIdle /\ EvalIdle /\ DemoIdle

ClosedNext ==
    \/ Tick
    \/ SrcSocket \/ SrcBind \/ SrcLoop \/ SrcReadError
    \/ SrcEvent
    \/ SrcSendFatal \/ SrcCloseFd \/ SrcCloseErrc \/ SrcCloseOut
    \/ RecvOut \/ RecvErrc
    \/ LoopEvent \/ LoopErr \/ LoopEventClosed \/ LoopErrClosed
    \/ TimerFire \/ TrigEval \/ TrigSendErr \/ TrigCompare \/ TrigSetLast
    \/ TrigSend

SpecClosed == InitClosed /\ [][ClosedNext]_vars

\* ---------------------------------------- the OS Event Source, Windows
\* "windows": two subscriptions and a stop flag (part_000:84-143);
\* "windows-1": one subscription, no stop flag (part_000:409-425).
WinPlatforms == {"windows", "windows-1"}

\* The subscriptions a file registers, in order.
SubsOf(p) == IF p = "windows" THEN <<"if", "rt">> ELSE <<"if">>

\* The reason a subscription's callback sends.
WinReason(sub) == IF sub = "if" THEN "ip interface change" ELSE "route change"

\* Where a callback starts: at the load of the stop flag, or at the send.
CallStart(p) == IF p = "windows" THEN "load" ELSE "select"

\* What the goroutine does, in order, once the ctx is done.
Teardown(p) ==
    IF p = "windows"
    THEN <<"stop", "cancelRt", "cancelIf", "closeErrc", "closeOut", "done">>
    ELSE <<"cancelIf", "closeErrc", "closeOut", "done">>

InitWin(p) ==
    /\ platform = p /\ intBits = 0 /\ srcPc = "notifyIf" /\ fdOpen = FALSE
    /\ dgram = <<>> /\ pendingMsgs = <<>>
    /\ eventsClosed = FALSE /\ errsClosed = FALSE /\ reads = 0
    /\ srcFatal = "none" /\ readLog = <<>>
    /\ errLog = <<>> /\ closeLog = <<>>
    /\ WinIdle

\* what no Windows step changes
winFrame == <<ctxDone, watchRest, wakeVars, evalVars, demoVars, platform, intBits,
              fdOpen,
              dgram, pendingMsgs, reads, readLog>>

\* The callbacks of a subscription that are running.
InFlight(sub) == {i \in 1..Len(calls) : calls[i].sub = sub}

\* procNotifyIpInterfaceChange.Call
WinNotifyIf ==
    /\ srcPc = "notifyIf"
    /\ \E ok \in BOOLEAN :
         IF ok
         THEN /\ subs' = subs \cup {"if"}
              /\ srcPc' = IF Len(SubsOf(platform)) > 1
                          THEN "notifyRt" ELSE "wait"
              /\ UNCHANGED srcFatal
         ELSE /\ srcFatal' = "notifyIf"
              /\ srcPc' = "fatal"
              /\ UNCHANGED subs
    /\ UNCHANGED <<events, errs, eventsClosed, errsClosed, errLog, closeLog,
                   stopped, calls, callsMade, lateEnqueue, sentOnClosed>>
    /\ UNCHANGED winFrame

\* procNotifyRouteChange2.Call; on failure the first subscription is
\* cancelled before the error is sent.
WinNotifyRt ==
    /\ srcPc = "notifyRt"
    /\ \E ok \in BOOLEAN :
         IF ok
         THEN /\ subs' = subs \cup {"rt"}
              /\ srcPc' = "wait"
              /\ UNCHANGED srcFatal
         ELSE /\ srcFatal' = "notifyRt"
              /\ srcPc' = "cancelFirst"
              /\ UNCHANGED subs
    /\ UNCHANGED <<events, errs, eventsClosed, errsClosed, errLog, closeLog,
                   stopped, calls, callsMade, lateEnqueue, sentOnClosed>>
    /\ UNCHANGED winFrame

\* procCancelMibChangeNotify2.Call(h): it returns once no callback of the
\* subscription is running, and none starts afterwards.
WinCancelSub(sub, next) ==
    /\ InFlight(sub) = {}
    /\ subs' = subs \ {sub}
    /\ srcPc' = next
    /\ UNCHANGED <<events, errs, eventsClosed, errsClosed, errLog, srcFatal,
                   stopped, calls, callsMade, lateEnqueue, sentOnClosed>>
    /\ UNCHANGED winFrame

WinCancelFirst ==
    /\ srcPc = "cancelFirst"
    /\ WinCancelSub("if", "fatal")
    /\ UNCHANGED closeLog

\* errc <- fmt.Errorf(...); return
WinSendFatal ==
    /\ srcPc = "fatal"
    /\ Len(errs) < ErrsCap
    /\ errs' = Append(errs, srcFatal)
    /\ errLog' = Append(errLog, srcFatal)
    /\ srcPc' = "closeErrc"
    /\ UNCHANGED <<events, eventsClosed, errsClosed, closeLog, srcFatal,
                   winVars>>
    /\ UNCHANGED winFrame

\* <-ctx.Done()
WinWait ==
    /\ srcPc = "wait"
    /\ ctxDone
    /\ srcPc' = Head(Teardown(platform))
    /\ UNCHANGED <<events, errs, eventsClosed, errsClosed, errLog, closeLog,
                   srcFatal, winVars>>
    /\ UNCHANGED winFrame

\* atomic.StoreUint32(&stopped, 1)
WinStop ==
    /\ srcPc = "stop"
    /\ stopped' = TRUE
    /\ closeLog' = Append(closeLog, "stop")
    /\ srcPc' = "cancelRt"
    /\ UNCHANGED <<events, errs, eventsClosed, errsClosed, errLog, srcFatal,
                   subs, calls, callsMade, lateEnqueue, sentOnClosed>>
    /\ UNCHANGED winFrame

WinCancelRt ==
    /\ srcPc = "cancelRt"
    /\ WinCancelSub("rt", "cancelIf")
    /\ closeLog' = Append(closeLog, "cancelRt")

WinCancelIf ==
    /\ srcPc = "cancelIf"
    /\ WinCancelSub("if", "closeErrc")
    /\ closeLog' = Append(closeLog, "cancelIf")

\* The deferred close(errc), close(out).
WinCloseErrc ==
    /\ srcPc = "closeErrc"
    /\ errsClosed' = TRUE
    /\ closeLog' = Append(closeLog, "errc")
    /\ srcPc' = "closeOut"
    /\ UNCHANGED <<events, errs, eventsClosed, errLog, srcFatal, winVars>>
    /\ UNCHANGED winFrame

WinCloseOut ==
    /\ srcPc = "closeOut"
    /\ eventsClosed' = TRUE
    /\ closeLog' = Append(closeLog, "out")
    /\ srcPc' = "done"
    /\ UNCHANGED <<events, errs, errsClosed, errLog, srcFatal, winVars>>
    /\ UNCHANGED winFrame

\* The OS starts a callback of a registered subscription on a thread of
\* its own.
WinCallback ==
    /\ callsMade < MaxCallbacks
    /\ \E sub \in subs :
         calls' = Append(calls, [sub |-> sub, pc |-> CallStart(platform)])
    /\ callsMade' = callsMade + 1
    /\ UNCHANGED <<events, errs, eventsClosed, errsClosed, errLog, closeLog,
                   srcFatal, srcPc, stopped, subs, lateEnqueue, sentOnClosed>>
    /\ UNCHANGED winFrame

\* send: if atomic.LoadUint32(&stopped) == 1 { return }
WinCallLoad ==
    /\ \E i \in 1..Len(calls) :
         /\ calls[i].pc = "load"
         /\ calls' = IF stopped THEN RemoveAt(calls, i)
                     ELSE [calls EXCEPT ![i].pc = "select"]
    /\ UNCHANGED <<events, errs, eventsClosed, errsClosed, errLog, closeLog,
                   srcFatal, srcPc, stopped, subs, callsMade, lateEnqueue,
                   sentOnClosed>>
    /\ UNCHANGED winFrame

\* select { case out <- osEvent{reason: ...}: default: }
\* A send on a closed channel panics; with the channel full the event is
\* dropped.
WinCallSelect ==
    /\ \E i \in 1..Len(calls) :
         /\ calls[i].pc = "select"
         /\ calls' = RemoveAt(calls, i)
         /\ IF eventsClosed
            THEN /\ sentOnClosed' = TRUE
                 /\ UNCHANGED <<events, lateEnqueue>>
            ELSE IF Len(events) < EventsCap
            THEN /\ events' = Append(events, WinReason(calls[i].sub))
                 /\ lateEnqueue' = (lateEnqueue \/ stopped)
                 /\ UNCHANGED sentOnClosed
            ELSE UNCHANGED <<events, lateEnqueue, sentOnClosed>>
    /\ UNCHANGED <<errs, eventsClosed, errsClosed, errLog, closeLog,
                   srcFatal, srcPc, stopped, subs, callsMade>>
    /\ UNCHANGED winFrame

WinInit ==
    /\ \E p \in WinPlatforms : InitWin(p)
    /\ WatchIdle /\ WakeIdle /\ EvalIdle /\ DemoIdle

WinNext ==
    \/ WinNotifyIf \/ WinNotifyRt \/ WinCancelFirst \/ WinSendFatal
    \/ WinWait \/ WinStop \/ WinCancelRt \/ WinCancelIf
    \/ WinCloseErrc \/ WinCloseOut
    \/ WinCallback \/ WinCallLoad \/ WinCallSelect
    \/ SrcTakeEvent \/ SrcTakeErr
    \/ Cancel

SpecWin == WinInit /\ [][WinNext]_vars

\* ---------------------------------------------- the Windows Online Evaluator
\* What recomputeOnline() of part_000:145-184 reads: how GetAdaptersAddresses
\* ends, the adapters it lists, and the interface indexes GetBestInterfaceEx
\* gives for the IPv6 and the IPv4 target (0: none).
WinAddrLists ==
    { <<>>,
      << Addr(TRUE, FALSE, FALSE, FALSE) >>,                \* 192.168.1.7
      << Addr(TRUE, FALSE, FALSE, TRUE) >>,                 \* 169.254.1.2
      << Addr(FALSE, FALSE, FALSE, TRUE) >>,                \* fe80::1
      << Addr(FALSE, FALSE, FALSE, TRUE),
         Addr(FALSE, FALSE, FALSE, FALSE) >>,               \* and 2001:db8::1
      << Addr(TRUE, TRUE, FALSE, FALSE) >> }                \* 127.0.0.1

\* An adapter: OperStatus = 1, net.InterfaceByIndex finds it, its flags, its
\* FirstGatewayAddress and FirstDnsServerAddress are set, its addresses.
Adapters(name) ==
    [name : {name}, operUp : BOOLEAN, known : BOOLEAN, loopback : BOOLEAN,
     flagUp : BOOLEAN, gateway : BOOLEAN, dns : BOOLEAN,
     addrs : WinAddrLists]

\* a second adapter, up, without gateway
SecondAdapters ==
    { [name |-> "Wi-Fi", operUp |-> TRUE, known |-> TRUE,
       loopback |-> FALSE, flagUp |-> TRUE, gateway |-> FALSE,
       dns |-> d, addrs |-> as] :
         d \in BOOLEAN,
         as \in { << Addr(FALSE, FALSE, FALSE, TRUE) >>,
                  << Addr(TRUE, FALSE, FALSE, FALSE) >> } }

AdapterLists ==
    { <<a>> : a \in Adapters("Ethernet") }
    \cup { <<a, b>> : a \in { x \in Adapters("Ethernet") : ~x.gateway /\ ~x.dns },
                      b \in SecondAdapters }

WinKernels ==
    [gaa : {"ok", "overflow", "error"},
     adapters : AdapterLists,
     best6 : {0, 1}, best4 : {0, 1}]

\* part_000:208-218: the first adapter that is up, known, not loopback and
\* has a gateway
RECURSIVE ScanGateways(_)
ScanGateways(as) ==
    IF as = <<>> THEN [hasDef |-> FALSE, ifn |-> "", err |-> FALSE]
    ELSE LET aa == Head(as)
         IN  IF ~aa.operUp THEN ScanGateways(Tail(as))
             ELSE IF ~aa.known \/ aa.loopback THEN ScanGateways(Tail(as))
             ELSE IF aa.gateway
                  THEN [hasDef |-> TRUE, ifn |-> aa.name, err |-> FALSE]
             ELSE ScanGateways(Tail(as))

\* part_000:188-224: a buffer overflow is retried with the size the call
\* asked for; any other failure is the function's error
winDefaultRouteAndIface(k) ==
    IF k.gaa = "error"
    THEN [hasDef |-> FALSE, ifn |-> "", err |-> TRUE]
    ELSE ScanGateways(k.adapters)

\* part_000:247-261
winBestInterfaceName(idx, k) ==
    IF idx = 0 THEN [ifn |-> "", ok |-> FALSE]
    ELSE IF idx > Len(k.adapters) \/ ~k.adapters[idx].known
            \/ k.adapters[idx].loopback
         THEN [ifn |-> "", ok |-> FALSE]
    ELSE [ifn |-> k.adapters[idx].name, ok |-> TRUE]

\* part_000:228-245: the IPv6 target first, then the IPv4 target
winDefaultRouteViaBestInterface(k) ==
    IF winBestInterfaceName(k.best6, k).ok
    THEN winBestInterfaceName(k.best6, k)
    ELSE winBestInterfaceName(k.best4, k)

\* net.InterfaceByName(ifn): the indexes of the interfaces of that name
WinInterfaceByName(ifn, k) ==
    {i \in 1..Len(k.adapters) :
        k.adapters[i].known /\ k.adapters[i].name = ifn}

\* part_000:349-382
winIfaceHasUsableAddr(ifn, k) ==
    \E i \in WinInterfaceByName(ifn, k) :
        \E j \in 1..Len(k.adapters[i].addrs) :
            UsableAddr(k.adapters[i].addrs[j])

\* part_000:265-287: no retry on a buffer overflow
winHasDNS(k) ==
    /\ k.gaa = "ok"
    /\ \E i \in 1..Len(k.adapters) : k.adapters[i].dns

\* part_000:335-344: one address of the interface
GlobalUnicast(a) ==
    IF a.loopback \/ a.unspecified THEN FALSE
    ELSE IF a.v4 THEN TRUE
    ELSE ~a.linkLocal

\* part_000:322-347
ifHasGlobalUnicast(aa) ==
    \E j \in 1..Len(aa.addrs) : GlobalUnicast(aa.addrs[j])

\* part_000:307-318: the first adapter that is up, known, not loopback and
\* holds such an address
RECURSIVE ScanUpGlobal(_)
ScanUpGlobal(as) ==
    IF as = <<>> THEN [alt |-> "", ok |-> FALSE]
    ELSE LET aa == Head(as)
         IN  IF ~aa.operUp THEN ScanUpGlobal(Tail(as))
             ELSE IF ~aa.known \/ aa.loopback THEN ScanUpGlobal(Tail(as))
             ELSE IF ifHasGlobalUnicast(aa)
                  THEN [alt |-> aa.name, ok |-> TRUE]
             ELSE ScanUpGlobal(Tail(as))

\* part_000:290-320: no retry on a buffer overflow
winPickUpGlobalInterface(k) ==
    IF k.gaa # "ok" THEN [alt |-> "", ok |-> FALSE]
    ELSE ScanUpGlobal(k.adapters)

\* part_000:153-159: the route of the primary path, or the interface the
\* routing engine names
WinRoute(k) ==
    LET p == winDefaultRouteAndIface(k)
        b == winDefaultRouteViaBestInterface(k)
    IN  IF (~p.hasDef \/ p.ifn = "") /\ b.ok
        THEN [hasDef |-> TRUE, ifn |-> b.ifn]
        ELSE [hasDef |-> p.hasDef, ifn |-> p.ifn]

\* part_000:145-184
winRecomputeOnline(k) ==
    IF winDefaultRouteAndIface(k).err
    THEN Ret(FALSE, <<"default route check failed">>, TRUE)
    ELSE LET rt == WinRoute(k)
         IN  IF rt.hasDef /\ rt.ifn # ""
             THEN IF \/ WinInterfaceByName(rt.ifn, k) = {}
                     \/ \E i \in WinInterfaceByName(rt.ifn, k) :
                            ~k.adapters[i].flagUp \/ k.adapters[i].loopback
                  THEN Ret(FALSE, <<"default iface down/loopback">>, FALSE)
                  ELSE IF ~winIfaceHasUsableAddr(rt.ifn, k)
                  THEN Ret(FALSE, <<"default iface has no usable IP">>, FALSE)
                  ELSE IF ~winHasDNS(k)
                  THEN Ret(FALSE, <<"no DNS resolver">>, FALSE)
                  ELSE Ret(TRUE, <<"default via ", rt.ifn>>, FALSE)
             ELSE LET fb == winPickUpGlobalInterface(k)
                  IN  IF ~fb.ok
                      THEN Ret(FALSE, <<"no default route">>, FALSE)
                      ELSE IF ~winHasDNS(k)
                      THEN Ret(FALSE, <<"no DNS resolver">>, FALSE)
                      ELSE Ret(TRUE, <<"fallback: up iface ", fb.alt>>,
                               FALSE)

\* part_000:145-184: the call
WinEvaluate ==
    /\ evalPc = "call"
    /\ result' = winRecomputeOnline(kernel)
    /\ evalPc' = "returned"
    /\ UNCHANGED kernel
    /\ UNCHANGED <<watchVars, wakeVars, demoVars, sourceVars>>

WinEvalInit ==
    /\ \E k \in WinKernels : InitEval(k)
    /\ WatchIdle /\ WakeIdle /\ DemoIdle /\ SrcIdle

WinEvalNext == WinEvaluate

SpecWinEval == WinEvalInit /\ [][WinEvalNext]_vars

\* ------------------------------------------------------------- the claims
\* The event stream so far: what the consumer has received, what the
\* channel buffers, and the events of the senders parked on it.
Stream == received \o out \o outSendq

IsInitial(e) == Head(e.cause) = "initial: "

\* C1: any two consecutive events received from the event stream, the
\* initial one included, have different online values.
C1_NoDuplicateEdges ==
    \A i \in 1..(Len(received) - 1) :
        received[i].online # received[i + 1].online

\* C2: the stream begins with exactly one initial event: its first event has
\* a cause prefixed "initial: " and the online value of the start-up
\* recomputeOnline() call, and no later event is an initial event.
C2_OneInitialEvent ==
    /\ Stream # <<>>
    /\ IsInitial(Stream[1])
    /\ Stream[1].online = initOnline
    /\ \A i \in 2..Len(Stream) : ~IsInitial(Stream[i])

\* C2 witness: the consumer has received the initial event and a change event.
C2_Witness == Len(received) >= 2 /\ IsInitial(received[1])

C4_SteadyStateOneEvent ==
    Cardinality(evalOnline) = 1 => Len(Stream) = 1

\* C4 witness: all OSEvents were received, a callback evaluated and ended,
\* and every evaluation returned the same online value.
C4_Witness ==
    /\ Cardinality(evalOnline) = 1
    /\ evalDone /\ evaluating = 0 /\ trigs = <<>>
    /\ srcEvents = MaxEvents /\ events = <<>> /\ ~debounceTimer.armed

\* C5: once the scope is cancelled and the closing of the streams has begun,
\* nothing is sent on them: no callback sends on (or is parked on) the
\* closed event or error stream, which in Go is a panic.
C5_NoSendOnClosedStream == ~panicked

\* C6: errors never block the event stream: while the consumer has not
\* drained the error stream, an OSEvent waiting in the event channel or a
\* cancellation is not held up by the event loop being blocked on errc.
C6_ErrorsNeverBlock ==
    (~errDrained /\ (events # <<>> \/ ctxDone)) => loopPc # "errsend"

\* C7: events are received in the order in which their transitions were
\* observed: no event was sent while a callback whose recomputeOnline() had
\* returned earlier, and which had seen its transition earlier, had yet to
\* send its own.
C7_OrderOfObservation ==
    \A i \in 1..Len(received) : received[i].inOrder

\* C8: between any two events emitted on the stream there is a window of at
\* least Debounce in which the loop received no OSEvent.
C8_QuietWindowBetweenEvents ==
    \A i \in 2..Len(received) : received[i].quietOK

\* The values the arguments stand for.
EffSample == IF sampleArg <= 0 THEN DefaultSample ELSE sampleArg

EffGap == IF gapArg <= 0 THEN DefaultGap ELSE gapArg

\* C9: the watcher emits a signal on a tick (runs the non-blocking send of
\* sleep_wake.go:25) if and only if the tick comes at least sample +
\* gap_threshold after the previous tick, or after the start for the first
\* tick, where a non-positive sample stands for 1 s and a non-positive gap
\* for 1.5 s; the signal emitted reaches the stream unless the one-slot
\* buffer is full, and then it is dropped.
C9_SignalIffGap ==
    /\ wakePc # "idle" => (sample = EffSample /\ gapThreshold = EffGap)
    /\ tickD >= 0 =>
        /\ tickEmit <=> (tickD >= EffSample + EffGap)
        /\ tickSent <=> (tickEmit /\ ~tickFull)

\* C9 witness: with both arguments non-positive a tick came 2.5 s or more
\* after the previous one and its signal was put on the stream.
C9_Witness ==
    /\ sampleArg <= 0 /\ gapArg <= 0
    /\ tickD >= DefaultSample + DefaultGap
    /\ tickEmit /\ tickSent /\ wakeOut = 1

\* The six layers, read off the kernel's state.  The default route is the
\* first IPv4 route with an all-zero destination and RTF_UP, or else the
\* first such IPv6 route (prefix length 0).
IsDefault4(ln) == ln.dest = Hex00000000 /\ ln.flags % 2 = 1

IsDefault6(ln) ==
    /\ ln.dest = "00000000000000000000000000000000"
    /\ ln.pfxLenHex = "00"
    /\ ln.flags % 2 = 1

Default4(k) ==
    IF k.route4.readable
    THEN {i \in 1..Len(k.route4.lines) : IsDefault4(k.route4.lines[i])}
    ELSE {}

Default6(k) ==
    IF k.route6.readable
    THEN {i \in 1..Len(k.route6.lines) : IsDefault6(k.route6.lines[i])}
    ELSE {}

First(S) == CHOOSE i \in S : \A j \in S : i <= j

RouteIface(k) ==
    IF Default4(k) # {} THEN k.route4.lines[First(Default4(k))].iface
    ELSE k.route6.lines[First(Default6(k))].dev

\* the default route has an IPv4 gateway: not an IPv6 route, and not the
\* gateway field 00000000 of a route without gateway
GatewayIPv4(k) ==
    /\ Default4(k) # {}
    /\ k.route4.lines[First(Default4(k))].gw # Hex00000000

Gateway(k) == hexToIPv4(k.route4.lines[First(Default4(k))].gw)

Layer1(k) == Default4(k) # {} \/ Default6(k) # {}

Layer2(k) == RouteIface(k) # ""

\* a state file that cannot be read is not held against the interface
Layer3(k) ==
    /\ k.ifi.name = RouteIface(k)
    /\ k.ifi.flagUp /\ ~k.ifi.flagLoopback
    /\ k.ifi.operstate.readable
           => k.ifi.operstate.lines[1] \in {"up", "unknown"}
    /\ k.ifi.carrier.readable => k.ifi.carrier.lines[1] = "1"

Layer4(k) ==
    \E i \in 1..Len(k.ifi.addrs) :
        LET a == k.ifi.addrs[i]
        IN  /\ ~a.loopback /\ ~a.unspecified
            /\ ~a.v4 => ~a.linkLocal

Layer5(k) ==
    (GatewayIPv4(k) /\ k.arp.readable) =>
        \E i \in 1..Len(k.arp.lines) :
            LET f == k.arp.lines[i]
            IN  /\ f.ip = Gateway(k) /\ f.dev = RouteIface(k)
                /\ (f.flags \div 2) % 2 = 1
                /\ f.mac # "00:00:00:00:00:00"

Layer6(k) ==
    \E f \in {k.resolved, k.etc} :
        /\ f.readable
        /\ \E i \in 1..Len(f.lines) :
            f.lines[i].keyword = "nameserver" /\ f.lines[i].addr[1] # 127

\* the first layer that fails, 0 when all six pass
FirstFailing(k) ==
    IF ~Layer1(k) THEN 1
    ELSE IF ~Layer2(k) THEN 2
    ELSE IF ~Layer3(k) THEN 3
    ELSE IF ~Layer4(k) THEN 4
    ELSE IF ~Layer5(k) THEN 5
    ELSE IF ~Layer6(k) THEN 6
    ELSE 0

LayerCause ==
    << <<"no default route">>, <<"default route no iface">>,
       <<"default iface down">>, <<"default iface has no usable IP">>,
       <<"gateway neighbor not ready">>, <<"no DNS resolver">> >>

\* C10: recomputeOnline() returns online = true if and only if all six
\* layers pass; when a layer fails it returns the cause of the first failing
\* layer, and when all pass the cause "default via <ifname>".
C10_OnlineIffAllLayersPass ==
    evalPc = "returned" =>
        LET n == FirstFailing(kernel)
        IN  /\ result.online <=> (n = 0)
            /\ n # 0 => result.why = LayerCause[n]
            /\ n = 0 => result.why = <<"default via ", RouteIface(kernel)>>

\* C15: when the start-up recomputeOnline() call returns an error, Watch
\* sends it on the error stream before it sends the initial event, the
\* initial event still carries the online value of that call, and neither
\* send of Watch blocks; the error is the first the consumer finds on the
\* error stream.
C15_StartupErrorFirst ==
    startup.err =>
        /\ startup.sends = <<"errc", "out">>
        /\ ~startup.blocked
        /\ IsInitial(Stream[1]) /\ Stream[1].online = initOnline
        /\ ~errDrained => (errc # <<>> /\ Head(errc) = "evaluate")

\* C15 witness: the start-up call failed and the consumer has received the
\* error and the initial event.
C15_Witness == startup.err /\ errDrained /\ Len(received) >= 1

\* The causes recomputeOnline() returns together with an error.
ErrorWhys == {r.why : r \in {x \in EvalResults : x.err}}

\* A callback whose recomputeOnline() call failed ends (watch.go:36-37).
ErrStep ==
    \E i \in 1..Len(trigs) :
        trigs[i].pc = "errsend" /\ trigs' = RemoveAt(trigs, i)

\* C17: a firing whose recomputeOnline() call returns an error forwards the
\* error and does nothing else: no change event comes from a failed call,
\* and the step of such a callback leaves `last` and the event stream as
\* they were.
C17_ErrorLeavesLastAlone ==
    /\ [](\A i \in 2..Len(Stream) : Stream[i].why \notin ErrorWhys)
    /\ [][ErrStep => /\ last' = last
                     /\ out' = out /\ outSendq' = outSendq
                     /\ received' = received]_vars

\* C17 witness: after the consumer drained the error stream, a callback's
\* recomputeOnline() failed, its error is on the error stream and the
\* callback has ended.
C17_Witness ==
    /\ errDrained /\ errc = <<"evaluate">>
    /\ evalDone /\ evaluating = 0 /\ trigs = <<>>

\* C18: every change event has the cause lastReason + "; " + newCause, with
\* the reason of the last OSEvent received before the timer of its callback
\* fired and the cause its recomputeOnline() call returned (newCause alone
\* when that reason is empty).
C18_CauseFromReasonAtFire ==
    \A i \in 1..Len(Stream) :
        ~IsInitial(Stream[i]) =>
            Stream[i].cause =
                IF Stream[i].fired # ""
                THEN <<Stream[i].fired, "; ", Stream[i].why>>
                ELSE <<Stream[i].why>>

\* C19: `last` and `lastReason` are never accessed by two tasks at once: at
\* most one debounce callback is between its firing and its end.
C19_OneCallbackAtATime == evaluating + Len(trigs) <= 1

\* The kernel inputs recomputeOnline() needs and cannot read: both routing
\* tables, or, with a default route on an interface that is up, a state
\* file of that interface.
RoutesUnreadable(k) == ~k.route4.readable /\ ~k.route6.readable

StateUnreadable(k) ==
    /\ Default4(k) # {}
    /\ k.ifi.flagUp /\ ~k.ifi.flagLoopback
    /\ ~k.ifi.operstate.readable \/ ~k.ifi.carrier.readable

\* C16: when recomputeOnline() cannot read a kernel input it needs, it
\* returns an error together with online = false and the cause
\* "<predicate> check failed".
C16_UnreadableInputIsError ==
    evalPc = "returned" =>
        /\ RoutesUnreadable(kernel) =>
            /\ result.err /\ ~result.online
            /\ result.why = <<"default route check failed">>
        /\ StateUnreadable(kernel) =>
            /\ result.err /\ ~result.online
            /\ result.why = <<"iface state check failed">>

\* C20: last_tick is assigned on every tick, so a tick at normal spacing
\* (no suspend since the tick before it, or since the start) emits nothing,
\* a suspend brings at most one signal, and a single suspend whose tick
\* comes sample + gap_threshold or more after the previous one has brought
\* exactly one signal, whatever number of ticks followed it.
C20_OneSignalPerGap ==
    /\ (tickD >= 0 /\ ~tickJump) => ~tickEmit
    /\ sentCount <= suspends
    /\ (suspends = 1 /\ jumpD >= EffSample + EffGap) => sentCount = 1

\* C20 witness: with the default arguments, one suspend of 2.5 s, its tick
\* handled, then a tick at normal spacing handled: one signal.
C20_Witness ==
    /\ sampleArg <= 0 /\ gapArg <= 0
    /\ suspends = 1 /\ jumpD >= DefaultSample + DefaultGap
    /\ tickD >= 0 /\ ~tickJump /\ ~tickEmit
    /\ sentCount = 1

\* C11: the OS Event Source never blocks its kernel reader on a full event
\* channel: with the 8 slots of the channel taken, a new OSEvent is dropped,
\* so the goroutine is never parked on the send.
C11_ReaderNeverParksOnFullChannel ==
    ~(srcPc = "send" /\ pendingMsgs # <<>> /\ Len(events) = EventsCap)

\* C12: after cancellation the Linux/BSD source releases its socket and then
\* closes both streams, the socket first, even when no further datagram
\* arrives and nothing receives from its event stream: once the ctx is done
\* the goroutine has finished or can take its next step by itself, and it
\* closes no stream while the socket is open.
C12_CancelReleasesThenCloses ==
    /\ ctxDone => (srcPc = "done" \/ ENABLED SrcRun)
    /\ (errsClosed \/ eventsClosed) => ~fdOpen
    /\ srcPc = "done" => (~fdOpen /\ errsClosed /\ eventsClosed)

\* The goroutine has returned from its loop: its deferred calls run or
\* have run.
SrcReturned == srcPc \in {"closeFd", "closeErrc", "closeOut", "done"}

\* How the last read ended ("none": no read has returned).
LastRead == IF readLog = <<>> THEN "none" ELSE readLog[Len(readLog)]

\* C13: a fatal error (the socket cannot be opened or bound, a read fails
\* with an error other than EINTR on Linux) is put on the source's error
\* stream, and then both streams are closed; on Linux a read that fails with
\* EINTR is retried: it neither puts an error on the stream nor closes it.
C13_FatalErrorEmittedThenClosed ==
    /\ (srcFatal # "none" /\ SrcReturned) =>
           (errLog # <<>> /\ errLog[Len(errLog)] = srcFatal)
    /\ (srcFatal # "none" /\ srcPc = "done") =>
           (errsClosed /\ eventsClosed /\ closeLog[Len(closeLog)] = "out")
    /\ (LastRead \in ReadErrors \ {"EINTR"}) => srcFatal = "read"
    /\ (platform = "linux" /\ LastRead = "EINTR") =>
           /\ srcFatal = "none"
           /\ \A i \in 1..Len(errLog) : errLog[i] = "parse"
           /\ SrcReturned => ctxDone

\* A Linux source retried an interrupted read, then met a read error, put
\* it on the error stream and closed both streams.
C13_Witness ==
    /\ platform = "linux"
    /\ \E i \in 1..Len(readLog) : readLog[i] = "EINTR"
    /\ srcFatal = "read" /\ srcPc = "done"
    /\ errs = <<"read">>
    /\ errsClosed /\ eventsClosed

\* After a cancellation the goroutine has set the stop flag, cancelled the
\* route subscription and the interface subscription, and closed errc and
\* out, in this order.
TeardownInOrder ==
    (platform \in WinPlatforms /\ srcFatal = "none" /\ srcPc = "done") =>
        closeLog = <<"stop", "cancelRt", "cancelIf", "errc", "out">>

\* No stream is closed while a subscription is registered.
StreamsClosedLast == (errsClosed \/ eventsClosed) => subs = {}

\* No callback has put an OSEvent on the channel with the stop flag set.
NoEnqueueAfterStop == ~lateEnqueue

\* No callback has sent on the closed channel.
NoSendOnClosedEvents == ~sentOnClosed

\* C14: on cancellation the Windows source sets the stop flag first, then
\* cancels both subscriptions, and only then closes its streams; whatever
\* the callbacks in flight do, no OSEvent is enqueued after the stop flag is
\* set and no callback sends on a closed stream.
C14_WindowsTeardownOrder ==
    /\ TeardownInOrder
    /\ StreamsClosedLast
    /\ NoEnqueueAfterStop
    /\ NoSendOnClosedEvents

\* recomputeOnline() has come to its gateway neighbor check: the checks
\* before it have passed.
ReachedLayer5(k) ==
    LET rt == linuxDefaultRoute(k)
    IN  /\ rt.hasDef /\ rt.ifname # ""
        /\ linuxIfaceUp(rt.ifname, k)
        /\ ifaceHasUsableAddr(rt.ifname, k)

\* C21: layer 5 passes exactly when the default route's gateway is IPv6 or
\* absent (gateway field 00000000), or the neighbor table cannot be read, or
\* the table has an entry for the IPv4 gateway on the default interface with
\* flag bit 0x2 set and a MAC other than 00:00:00:00:00:00; otherwise
\* recomputeOnline() returns online = false with the cause "gateway neighbor
\* not ready".
C21_GatewayNeighborCheck ==
    (evalPc = "returned" /\ ReachedLayer5(kernel)) =>
        /\ Layer5(kernel) => result.why # <<"gateway neighbor not ready">>
        /\ ~Layer5(kernel) =>
               (~result.online
                /\ result.why = <<"gateway neighbor not ready">>)

\* The kernel has no IPv4 default route and has an IPv6 default route.
OnlyDefault6(k) == Default4(k) = {} /\ Default6(k) # {}

\* C22: a Linux host without IPv4 default route and with an IPv6 default
\* route (all-zero destination, prefix length 0, in /proc/net/ipv6_route)
\* passes layer 1 with that route's interface name, and the gateway neighbor
\* check is skipped for it, the gateway string being empty.
C22_IPv6DefaultRoutePasses ==
    (evalPc = "returned" /\ OnlyDefault6(kernel)) =>
        LET rt == linuxDefaultRoute(kernel)
        IN  /\ rt.hasDef
            /\ rt.ifname = kernel.route6.lines[First(Default6(kernel))].dev
            /\ rt.gw = <<>>
            /\ result.why \notin { <<"no default route">>,
                                   <<"default route no iface">>,
                                   <<"gateway neighbor not ready">> }

\* An address that is not link-local (neither 169.254/16 nor fe80::/10), not
\* loopback and not unspecified.
NotLinkLocalAddr(a) == ~a.linkLocal /\ ~a.loopback /\ ~a.unspecified

\* C23: the Windows recomputeOnline() returns online = true with a cause
\* prefixed "fallback: up iface " only if some operational non-loopback
\* adapter holds an address that is not link-local, not loopback and not
\* unspecified; an adapter whose only addresses are link-local does not pass.
C23_FallbackNeedsGlobalAddress ==
    (evalPc = "returned" /\ result.online
         /\ result.why[1] = "fallback: up iface ") =>
        \E i \in 1..Len(kernel.adapters) :
            LET aa == kernel.adapters[i]
            IN  /\ aa.operUp /\ ~aa.loopback
                /\ aa.name = result.why[2]
                /\ \E j \in 1..Len(aa.addrs) : NotLinkLocalAddr(aa.addrs[j])

\* What parseNlMsgs makes of the datagram the Linux reader has read.
Parsed == parseNlMsgs(dgram, intBits)

\* C24: for every input buffer parseNlMsgs terminates, accepts a message
\* only if its header length is at least the 16 bytes of the header and at
\* most the rest of the buffer, and every body it returns lies inside the
\* buffer; a datagram with an invalid header length is not fatal: the reader
\* keeps running, closes neither stream and reads the next datagram.
C24_ParseIsLengthChecked ==
    /\ srcPc # "panic"
    /\ (platform = "linux" /\ dgram # <<>>) =>
           /\ Parsed.outcome \in {"ok", "err"}
           /\ \A i \in 1..Len(Parsed.msgs) :
                  LET m == Parsed.msgs[i]
                  IN  /\ m.len >= HdrLen
                      /\ m.from <= m.to /\ m.to <= dgram.n
    /\ srcPc \in {"parse", "parseErr"} => (~errsClosed /\ ~eventsClosed)
    /\ SrcReturned => (ctxDone \/ srcFatal # "none")

\* Nothing is left to do: no OSEvent and no error waits in the source's
\* channels, no timer is armed, no callback runs, and the consumer has
\* drained both streams.
Quiescent ==
    /\ ~ctxDone /\ ~panicked /\ loopPc = "select"
    /\ events = <<>> /\ errs = <<>>
    /\ ~debounceTimer.armed
    /\ evaluating = 0 /\ trigs = <<>>
    /\ out = <<>> /\ outSendq = <<>>
    /\ errc = <<>> /\ errcSendq = <<>>

\* C25: when the kernel's state has stopped changing, an OSEvent of after
\* the last change has been delivered, recomputeOnline() returns no error
\* and the consumer has drained both streams, `last` and the online value of
\* the last event received equal what recomputeOnline() returns now: a
\* behaviour does not come to rest with another value.
C25_SettlesOnCurrentResult ==
    (Quiescent /\ staleQueued = -1 /\ received # <<>>) =>
        /\ last = (kernelOnline = "online")
        /\ received[Len(received)].online = (kernelOnline = "online")

\* C26: once the source has closed its event channel and nothing is left in
\* it, with ctx not cancelled, no step overwrites lastReason and no step
\* arms the debounce timer or gives it more time: a receive from the closed
\* channel is not taken for an OSEvent, and a pending timer runs down.
C26_ClosedStreamIsNoEvent ==
    [][(eventsClosed /\ events = <<>> /\ ~ctxDone) =>
          /\ lastReason' = lastReason
          /\ ~debounceTimer'.armed \/
               (debounceTimer.armed /\ debounceTimer'.left <= debounceTimer.left)]_vars

\* C27: after the signal has cancelled the ctx and the Watch streams and the
\* wake-gap stream are closed, main's select loop ends: it finds a stream
\* closed at most once and does not go on receiving from closed streams.
StreamsClosed == ctxDone /\ outClosed /\ errcClosed /\ wakeClosed

C27_MainLoopEnds == StreamsClosed => closedRecvs <= 1

=============================================================================
